---- MODULE Spec2Model ----
(***************************************************************************)
(* Verification model of the opx secret daemon (zach-source/opx):          *)
(* request engine (internal/server), TTL cache (internal/cache), session   *)
(* manager (internal/session), session-aware backend (internal/backend),   *)
(* policy evaluator (internal/policy).                                      *)
(*                                                                         *)
(* Strings are sequences of one-character strings, so that concatenation,  *)
(* prefix, suffix and splitting are computed as the Go code computes them. *)
(***************************************************************************)
EXTENDS Integers, Sequences, FiniteSets, TLC

VARIABLES
    kin,          \* SpecKey: the two (ref, flags) inputs under comparison
    kout,         \* SpecKey: the two cache keys computed for them, or <<>>
    pin,          \* SpecPolicy: the (policy, subject, ref) input
    pout,         \* SpecPolicy: <<result of Allowed>>, or <<>>
    bin,          \* SpecBatch: the reads / resolve request and the backend's answers
    bout,         \* SpecBatch: <<response>>, or <<>>
    oin,          \* SpecOpcli: the (ref, flags) given to OpCLI.ReadRefWithFlags
    oout,         \* SpecOpcli: <<result>>, or <<>>
    mbin,         \* SpecMulti: the (ref, defaultScheme) given to MultiBackend
    mbout,        \* SpecMulti: <<result>>, or <<>>
    cdata,        \* SpecCache: Cache.data with entry.v a pointer, key -> [v, exp, cached]
    heap,         \* SpecCache: the SafeString objects allocated, id -> data
    cmu,          \* SpecCache: Cache.mu, 0 = free, else the thread holding the write lock
    cth,          \* SpecCache: per thread, the position and locals of its Cache call
    cret,         \* SpecCache: per thread, <<result of its last Get>>, or <<>>
    cstored,      \* SpecCache history: the (key, value) pairs Set has stored
    auditLog,     \* audit.Logger: the records written, in order
    ctxDone,      \* per thread: the context of the request it serves is cancelled
    mus,          \* SpecLocks: Manager.mu and Cache.mu, each [w, r, q]: the writer
                  \* holding it (0 = none), the readers holding it, the writers waiting
    lth,          \* SpecLocks: per goroutine, the call it executes and what is left of it
    tfs,          \* SpecToken: the file system, path -> content, or NoFile
    tth,          \* SpecToken: per process, the position and locals of its EnsureToken call
    trets,        \* SpecToken history: the tokens returned by successful calls
    clOut,        \* SpecCleanup: <<count returned by CleanupExpired>>, or <<>>
    lockCbFails,  \* environment: the registered lock callback returns an error
    life,         \* the daemon's root context, Manager.stopCh and doneCh, the cache
                  \* cleanup goroutine and the position of the Manager.Stop call
    now,          \* the wall clock (time.Now), in ticks; 0 is the zero time.Time
    cliOK,        \* environment: the unlock callback (op whoami) would succeed
    sessCfg,      \* session.Config: EnableSessionLock, SessionIdleTimeout, LockOnAuthFailure
    sessState,    \* Manager.state
    lastActivity, \* Manager.lastActivity
    lockedAt,     \* Manager.lockedAt (0 = zero time)
    hasLockCb,    \* Manager.lockCallback # nil
    hasUnlockCb,  \* Manager.unlockCallback # nil
    monitor,      \* the idle loop goroutine: "new", "running", "disabled"
    lockCalls,    \* history: number of lock callback invocations
    pc,           \* per thread: position in the operation it executes
    kind,         \* per thread: "client" (direct Manager caller), "read" (request),
                  \* "unlock" (a client thread while it serves an unlock request)
    ops,          \* per thread: number of operations started
    vcur,         \* per thread: ValidateSession's currentState snapshot
    vcb,          \* per thread: result of this call's unlock callback
    vcalled,      \* per thread: this ValidateSession call invoked the callback
    vres,         \* per thread: result of the last finished ValidateSession
    cache,        \* Cache.data: key -> entry
    hits,         \* Cache.hits
    misses,       \* Cache.misses
    inflight,     \* Cache.inflight
    srvPolicy,    \* Server.Policy
    sfm,          \* Server.sf: the single-flight calls in progress, {[key, leader]}
    secretVer,    \* environment: version of the secrets held upstream
    beBy,         \* history: the threads whose request invoked the upstream backend
    req,          \* per thread: the request it serves [tok, peer, ref, flags], or NoVal
    resp,         \* per thread: the response written, or NoVal
    tres,         \* per thread: the single-flight result (thunk return) it received
    joined,       \* per thread: leader of the single-flight call it waits on, or 0
    early,        \* history per thread: no backend call for its key had completed on arrival
    arrState      \* history per thread: session state when the request arrived

NoVal == "none"

conVars == <<cdata, heap, cmu, cth, cret, cstored>>
lkVars == <<mus, lth>>
tokVars == <<tfs, tth, trets>>
lifeOthers == <<kin, kout, bin, bout, oin, oout, mbin, mbout, conVars, auditLog,
                ctxDone, lkVars, tokVars, clOut, lockCbFails>>
moreVars == <<ctxDone, lkVars, tokVars, clOut, lockCbFails, life>>
extVars == <<mbin, mbout, conVars, auditLog, moreVars>>
keyVars == <<kin, kout, bin, bout, oin, oout, extVars>>
polVars == <<pin, pout>>
envVars == <<now, cliOK>>
sessVars == <<sessCfg, sessState, lastActivity, lockedAt, hasLockCb, hasUnlockCb,
              monitor, lockCalls>>
thrVars == <<pc, kind, ops, vcur, vcb, vcalled, vres>>
cacheVars == <<cache>>
statVars == <<hits, misses, inflight>>
srvVars == <<srvPolicy, sfm, secretVer, beBy, req, resp, tres, joined, early, arrState>>

(***************************************************************************)
(* String helpers (Go package strings)                                     *)
(***************************************************************************)
Str1(c) == <<c>>

HasPrefix(s, p) == Len(s) >= Len(p) /\ SubSeq(s, 1, Len(p)) = p

HasSuffix(s, p) == Len(s) >= Len(p) /\ SubSeq(s, Len(s) - Len(p) + 1, Len(s)) = p

TrimSuffix(s, p) == IF HasSuffix(s, p) THEN SubSeq(s, 1, Len(s) - Len(p)) ELSE s

RECURSIVE Join(_, _)
Join(elems, sep) ==
    IF Len(elems) = 0 THEN <<>>
    ELSE IF Len(elems) = 1 THEN elems[1]
    ELSE elems[1] \o sep \o Join(Tail(elems), sep)

(***************************************************************************)
(* Request fingerprint: Server.readOneWithFlags, cacheKey                  *)
(***************************************************************************)
FlagsDelim == <<"|", "f", "l", "a", "g", "s", ":">>

cacheKey(ref, flags) ==
    IF Len(flags) > 0 THEN ref \o FlagsDelim \o Join(flags, Str1(",")) ELSE ref

(***************************************************************************)
(* Bounded inputs of the fingerprint function                              *)
(***************************************************************************)
MaxFlags == 2

KeyRefs == { <<"o", "p">>,
             <<"o", "q">>,
             <<"o", "p", "|", "f", "l", "a", "g", "s", ":", "-", "x">> }

KeyFlagElems == { <<"-", "x">>, <<"-", "y">>, <<"-", "x", ",", "-", "y">>, <<>> }

SeqsUpTo(S, n) == UNION { [1..k -> S] : k \in 0..n }

KeyFlagLists == SeqsUpTo(KeyFlagElems, MaxFlags)

KeyInit ==
    /\ kin \in [r1 : KeyRefs, f1 : KeyFlagLists, r2 : KeyRefs, f2 : KeyFlagLists]
    /\ kout = <<>>

\* two read requests compute their cache keys
KeyCompute ==
    /\ kout = <<>>
    /\ kout' = <<cacheKey(kin.r1, kin.f1), cacheKey(kin.r2, kin.f2)>>
    /\ UNCHANGED <<kin, bin, bout, oin, oout, extVars>>
    /\ UNCHANGED <<polVars, envVars, sessVars, thrVars, cacheVars, statVars, srvVars>>

(***************************************************************************)
(* Paths: filepath.Clean on Unix                                           *)
(***************************************************************************)
\* segments of s between "/" separators (empty segments included)
RECURSIVE SplitSlash(_, _, _)
SplitSlash(s, cur, acc) ==
    IF Len(s) = 0 THEN Append(acc, cur)
    ELSE IF Head(s) = "/" THEN SplitSlash(Tail(s), <<>>, Append(acc, cur))
    ELSE SplitSlash(Tail(s), Append(cur, Head(s)), acc)

DotDot == <<".", ".">>

RECURSIVE CleanSegs(_, _, _)
CleanSegs(segs, stack, rooted) ==
    IF Len(segs) = 0 THEN stack
    ELSE LET g == Head(segs)
             rest == Tail(segs)
         IN  IF g = <<>> \/ g = Str1(".") THEN CleanSegs(rest, stack, rooted)
             ELSE IF g = DotDot
                  THEN IF Len(stack) > 0 /\ stack[Len(stack)] # DotDot
                         THEN CleanSegs(rest, SubSeq(stack, 1, Len(stack) - 1), rooted)
                       ELSE IF rooted THEN CleanSegs(rest, stack, rooted)
                       ELSE CleanSegs(rest, Append(stack, g), rooted)
             ELSE CleanSegs(rest, Append(stack, g), rooted)

Clean(p) ==
    IF Len(p) = 0 THEN Str1(".")
    ELSE LET rooted == (Head(p) = "/")
             stack == CleanSegs(SplitSlash(p, <<>>, <<>>), <<>>, rooted)
         IN  IF rooted THEN Str1("/") \o Join(stack, Str1("/"))
             ELSE IF Len(stack) = 0 THEN Str1(".")
             ELSE Join(stack, Str1("/"))

(***************************************************************************)
(* Policy evaluator (internal/policy/policy.go)                            *)
(***************************************************************************)
\* hex digest of a string: a tagged copy, distinct for distinct inputs and
\* never equal to the input itself
sha256Hex(s) == <<"sha256:">> \o s

RECURSIVE matchRef(_, _)
matchRef(allowed, ref) ==
    IF Len(allowed) = 0 THEN FALSE
    ELSE LET a == Head(allowed)
         IN  IF a = Str1("*") THEN TRUE
             ELSE IF HasSuffix(a, Str1("*"))
                  THEN IF HasPrefix(ref, TrimSuffix(a, Str1("*"))) THEN TRUE
                       ELSE matchRef(Tail(allowed), ref)
             ELSE IF ref = a THEN TRUE
             ELSE matchRef(Tail(allowed), ref)

samePath(a, b) ==
    IF a = <<>> \/ b = <<>> THEN FALSE
    ELSE Clean(a) = Clean(b)

\* the loop of Allowed over pol.Allow
RECURSIVE AllowedScan(_, _, _, _)
AllowedScan(rules, defaultDeny, subj, ref) ==
    IF Len(rules) = 0 THEN ~defaultDeny
    ELSE LET r == Head(rules)
         IN  IF r.PID # 0 /\ r.PID # subj.PID
               THEN AllowedScan(Tail(rules), defaultDeny, subj, ref)
             ELSE IF r.Path # <<>> /\ ~samePath(r.Path, subj.Path)
               THEN AllowedScan(Tail(rules), defaultDeny, subj, ref)
             ELSE IF r.PathSHA256 # <<>> /\ r.PathSHA256 # sha256Hex(subj.Path)
               THEN AllowedScan(Tail(rules), defaultDeny, subj, ref)
             ELSE IF matchRef(r.Refs, ref) THEN TRUE
             ELSE AllowedScan(Tail(rules), defaultDeny, subj, ref)

\* mutant: the default decision ignores default_deny when rules are present
AllowedIgnoreDeny(pol, subj, ref) ==
    IF Len(pol.Allow) = 0 /\ ~pol.DefaultDeny THEN TRUE
    ELSE AllowedScan(pol.Allow, FALSE, subj, ref)

\* mutant: a first rule whose PID selector does not match denies the request
AllowedDenyOnMismatch(pol, subj, ref) ==
    IF Len(pol.Allow) = 0 /\ ~pol.DefaultDeny THEN TRUE
    ELSE IF Len(pol.Allow) > 0 /\ pol.Allow[1].PID # 0 /\ pol.Allow[1].PID # subj.PID
      THEN FALSE
    ELSE AllowedScan(pol.Allow, pol.DefaultDeny, subj, ref)

Allowed(pol, subj, ref) ==
    IF Len(pol.Allow) = 0 /\ ~pol.DefaultDeny THEN TRUE
    ELSE AllowedScan(pol.Allow, pol.DefaultDeny, subj, ref)

(***************************************************************************)
(* Bounded inputs of the policy evaluator                                  *)
(***************************************************************************)
MaxRules == 2

PathGood == <<"/", "g">>
PathGoodDots == <<"/", "b", "/", ".", ".", "/", "g">>
PathBad == <<"/", "b">>

RulePaths == { <<>>, PathGoodDots }
RuleSHAs == { <<>>, sha256Hex(PathGood) }
RulePIDs == { 0, 7 }
RuleRefLists == { <<Str1("*")>>, << <<"p", "*">> >>, << <<"q">>, <<"p", "a">> >> }

PolicyRules == [Path : RulePaths, PathSHA256 : RuleSHAs, PID : RulePIDs, Refs : RuleRefLists]
Policies == [Allow : SeqsUpTo(PolicyRules, MaxRules), DefaultDeny : BOOLEAN]
Subjects == [PID : {0, 7}, Path : { <<>>, PathGood, PathBad }]
PolicyRefs == { <<"p", "a">>, <<"q">>, <<"r">> }

PolicyInit ==
    /\ pin \in [pol : Policies, subj : Subjects, ref : PolicyRefs]
    /\ pout = <<>>

PolicyEval ==
    /\ pout = <<>>
    /\ pout' = <<Allowed(pin.pol, pin.subj, pin.ref)>>
    /\ UNCHANGED <<keyVars, pin, envVars, sessVars, thrVars, cacheVars, statVars, srvVars>>

(***************************************************************************)
(* Time and environment                                                    *)
(***************************************************************************)
MaxTime == 3

Times == 1..MaxTime

\* the clock advances
Tick ==
    /\ now < MaxTime
    /\ now' = now + 1
    /\ UNCHANGED <<cliOK, keyVars, polVars, sessVars, thrVars, cacheVars, statVars, srvVars>>

\* the upstream CLI session is signed in or out behind the daemon's back
CliToggle ==
    /\ cliOK' = ~cliOK
    /\ UNCHANGED <<now, keyVars, polVars, sessVars, thrVars, cacheVars, statVars, srvVars>>

(***************************************************************************)
(* Cache (internal/cache/cache.go): data maps key -> [v, exp, cached]      *)
(***************************************************************************)
\* Cache.Clear: every entry is zeroed and removed
CacheClear(c) == << >>

(***************************************************************************)
(* Session state (internal/session): SessionState and its predicates       *)
(***************************************************************************)
SessionUnknown == "unknown"
SessionAuthenticated == "authenticated"
SessionLocked == "locked"
SessionExpired == "expired"

SessionStates == {SessionUnknown, SessionAuthenticated, SessionLocked, SessionExpired}

IsActive(st) == st = SessionAuthenticated

RequiresUnlock(st) == st \in {SessionLocked, SessionExpired}

(***************************************************************************)
(* Session manager (Manager): the effect of each critical section on       *)
(* <<state, lastActivity, lockedAt>>, and the lock callback                *)
(***************************************************************************)
Threads == 1..2

\* mutant: the lock callback is never invoked
executeLockCallbackNever == UNCHANGED <<cache, lockCalls>>

\* Manager.executeLockCallback: the registered callback is called and its
\* error, if any, only logged.  The server's callback clears the cache; a
\* callback that returns an error may have cleared it or not.
executeLockCallback ==
    IF hasLockCb
      THEN /\ cache' \in (IF lockCbFails THEN {cache, CacheClear(cache)}
                                          ELSE {CacheClear(cache)})
           /\ lockCalls' = lockCalls + 1
      ELSE UNCHANGED <<cache, lockCalls>>

\* mutant: a lock whose callback fails is rolled back
MarkLockedRollsBack ==
    IF sessState # SessionLocked
      THEN /\ sessState' = IF hasLockCb /\ lockCbFails THEN sessState ELSE SessionLocked
           /\ lockedAt' = IF hasLockCb /\ lockCbFails THEN lockedAt ELSE now
           /\ executeLockCallback
           /\ UNCHANGED lastActivity
      ELSE UNCHANGED <<sessState, lockedAt, lastActivity, cache, lockCalls>>

\* mutant: the state test of line 135 is missing
MarkLockedAlways ==
    /\ sessState' = SessionLocked
    /\ lockedAt' = now
    /\ executeLockCallback
    /\ UNCHANGED lastActivity

\* Manager.MarkLocked
MarkLocked ==
    IF sessState # SessionLocked
      THEN /\ sessState' = SessionLocked
           /\ lockedAt' = now
           /\ executeLockCallback
           /\ UNCHANGED lastActivity
      ELSE UNCHANGED <<sessState, lockedAt, lastActivity, cache, lockCalls>>

\* MarkAuthenticated without the reset of lockedAt
MarkAuthenticatedKeepsLockTime ==
    /\ sessState' = SessionAuthenticated
    /\ lastActivity' = now
    /\ UNCHANGED lockedAt

\* Manager.MarkAuthenticated
MarkAuthenticated ==
    /\ sessState' = SessionAuthenticated
    /\ lastActivity' = now
    /\ lockedAt' = 0

\* mutant: the activity is stamped in every state
UpdateActivityAlways ==
    /\ lastActivity' = now
    /\ UNCHANGED <<sessState, lockedAt>>

\* Manager.UpdateActivity
UpdateActivity ==
    /\ lastActivity' = IF sessState = SessionAuthenticated THEN now ELSE lastActivity
    /\ UNCHANGED <<sessState, lockedAt>>

\* mutant: a session idle for exactly the timeout is already locked
IdleExceededInclusive == sessCfg.SessionIdleTimeout > 0 /\ now - lastActivity >= sessCfg.SessionIdleTimeout

\* mutant: the idle comparison is reversed, so an idle session is never locked
IdleExceededReversed == sessCfg.SessionIdleTimeout > 0 /\ lastActivity - now > sessCfg.SessionIdleTimeout

\* Manager.checkIdleTimeout: time.Since(lastActivity) > SessionIdleTimeout
IdleExceeded == sessCfg.SessionIdleTimeout > 0 /\ now - lastActivity > sessCfg.SessionIdleTimeout

\* Manager.checkIdleTimeout, run by Manager.monitor on each ticker event
checkIdleTimeout ==
    /\ monitor = "running"
    /\ IF sessState = SessionAuthenticated /\ IdleExceeded
         THEN /\ sessState' = SessionLocked
              /\ lockedAt' = now
              /\ executeLockCallback
         ELSE UNCHANGED <<sessState, lockedAt, cache, lockCalls>>
    /\ UNCHANGED <<lastActivity, sessCfg, hasLockCb, hasUnlockCb, monitor>>
    /\ UNCHANGED <<envVars, keyVars, polVars, thrVars, statVars, srvVars>>

\* mutant: with session locking disabled Start returns without closing doneCh
StartKeepsDoneCh ==
    /\ monitor = "new"
    /\ monitor' = IF sessCfg.EnableSessionLock THEN "running" ELSE "disabled"
    /\ UNCHANGED life
    /\ UNCHANGED <<sessCfg, sessState, lastActivity, lockedAt, hasLockCb, hasUnlockCb, lockCalls>>
    /\ UNCHANGED <<envVars, lifeOthers, polVars, thrVars, cacheVars, statVars, srvVars>>

\* Manager.Start: the idle loop runs only when session locking is enabled;
\* when it is disabled doneCh is closed at once
Start ==
    /\ monitor = "new"
    /\ monitor' = IF sessCfg.EnableSessionLock THEN "running" ELSE "disabled"
    /\ life' = IF sessCfg.EnableSessionLock THEN life ELSE [life EXCEPT !.doneCh = "closed"]
    /\ UNCHANGED <<sessCfg, sessState, lastActivity, lockedAt, hasLockCb, hasUnlockCb, lockCalls>>
    /\ UNCHANGED <<envVars, lifeOthers, polVars, thrVars, cacheVars, statVars, srvVars>>

(***************************************************************************)
(* Manager.ValidateSession, step by step.  A call is at                    *)
(*   "v_read"  before the RLock section that snapshots the state           *)
(*   "v_cb"    before the unlock callback is invoked                       *)
(*   "v_apply" before the critical section that applies its result         *)
(* AfterValidate gives the position of the caller once the call returns.   *)
(***************************************************************************)
AfterValidate(t, res) ==
    IF kind[t] = "read" THEN (IF res = "ok" THEN "be_read" ELSE "thunk_err")
    ELSE IF kind[t] = "unlock" THEN "u_info"
    ELSE "idle"

VFinish(t, res) ==
    /\ pc' = [pc EXCEPT ![t] = AfterValidate(t, res)]
    /\ vres' = [vres EXCEPT ![t] = res]

\* ValidateSession lines 106-127, attemptUnlock line 209
ValidateRead(t) ==
    /\ pc[t] = "v_read"
    /\ vcur' = [vcur EXCEPT ![t] = sessState]
    /\ vcalled' = [vcalled EXCEPT ![t] = FALSE]
    /\ vcb' = [vcb EXCEPT ![t] = IF hasUnlockCb THEN NoVal ELSE "nocb"]
    /\ IF IsActive(sessState) THEN VFinish(t, "ok")
       ELSE IF RequiresUnlock(sessState)
              THEN IF ~hasUnlockCb THEN VFinish(t, "err")
                   ELSE pc' = [pc EXCEPT ![t] = "v_cb"] /\ UNCHANGED vres
       ELSE IF sessState = SessionUnknown
              THEN IF ~hasUnlockCb
                     THEN pc' = [pc EXCEPT ![t] = "v_apply"] /\ UNCHANGED vres
                     ELSE pc' = [pc EXCEPT ![t] = "v_cb"] /\ UNCHANGED vres
       ELSE VFinish(t, "err")
    /\ UNCHANGED <<kind, ops>>
    /\ UNCHANGED <<envVars, keyVars, polVars, sessVars, cacheVars, statVars, srvVars>>

\* the unlock callback runs (attemptUnlock line 221, determineInitialState
\* line 248); a failed unlock of a locked session returns at once
ValidateCallback(t) ==
    /\ pc[t] = "v_cb"
    /\ vcalled' = [vcalled EXCEPT ![t] = TRUE]
    /\ vcb' = [vcb EXCEPT ![t] = IF cliOK /\ ~ctxDone[t] THEN "ok" ELSE "err"]
    /\ IF ~(cliOK /\ ~ctxDone[t]) /\ RequiresUnlock(vcur[t])
         THEN VFinish(t, "err")
         ELSE pc' = [pc EXCEPT ![t] = "v_apply"] /\ UNCHANGED vres
    /\ UNCHANGED <<kind, ops, vcur>>
    /\ UNCHANGED <<envVars, keyVars, polVars, sessVars, cacheVars, statVars, srvVars>>

\* mutant: a failed classification of an Unknown session leaves the state
\* as it is instead of locking
ValidateApplyKeepsState(t) ==
    /\ pc[t] = "v_apply"
    /\ IF vcb[t] = "ok"
         THEN MarkAuthenticated /\ VFinish(t, "ok")
         ELSE UNCHANGED <<sessState, lockedAt, lastActivity>> /\ VFinish(t, "err")
    /\ UNCHANGED <<kind, ops, vcur, vcb, vcalled>>
    /\ UNCHANGED <<sessCfg, hasLockCb, hasUnlockCb, monitor, lockCalls>>
    /\ UNCHANGED <<envVars, keyVars, polVars, cacheVars, statVars, srvVars>>

\* the result is applied: MarkAuthenticated on success (lines 229, 258),
\* Locked without the lock callback from Unknown (lines 240-243, 250-253)
ValidateApply(t) ==
    /\ pc[t] = "v_apply"
    /\ IF vcb[t] = "ok"
         THEN MarkAuthenticated /\ VFinish(t, "ok")
         ELSE /\ sessState' = SessionLocked
              /\ lockedAt' = now
              /\ UNCHANGED lastActivity
              /\ VFinish(t, "err")
    /\ UNCHANGED <<kind, ops, vcur, vcb, vcalled>>
    /\ UNCHANGED <<sessCfg, hasLockCb, hasUnlockCb, monitor, lockCalls>>
    /\ UNCHANGED <<envVars, keyVars, polVars, cacheVars, statVars, srvVars>>

(***************************************************************************)
(* Cache operations (internal/cache/cache.go)                              *)
(***************************************************************************)
TTL == 1

\* mutant: an entry is treated as expired already at its expiry instant
CacheLiveStrict(e, t) == t < e.exp

\* Cache.Get line 37: an entry is a miss iff time.Now().After(e.exp)
CacheLive(e, t) == ~(t > e.exp)

\* Cache.Get
CacheGet(c, key, t) ==
    IF key \in DOMAIN c /\ CacheLive(c[key], t)
      THEN [ok |-> TRUE, v |-> c[key].v, exp |-> c[key].exp, cached |-> c[key].cached]
      ELSE [ok |-> FALSE, v |-> <<>>, exp |-> 0, cached |-> 0]

\* Cache.Set
CacheSet(c, key, val, t) ==
    [k \in (DOMAIN c) \cup {key} |->
        IF k = key THEN [v |-> val, exp |-> t + TTL, cached |-> t] ELSE c[k]]

\* mutant: an entry is removed already at its expiry instant
CleanupExpiredInclusive(c, t) ==
    LET gone == { k \in DOMAIN c : t >= c[k].exp }
    IN  [data |-> [k \in (DOMAIN c) \ gone |-> c[k]], removed |-> Cardinality(gone)]

\* Cache.CleanupExpired: the entries with now.After(entry.exp) are zeroed
\* and deleted and counted
CleanupExpired(c, t) ==
    LET gone == { k \in DOMAIN c : t > c[k].exp }
    IN  [data |-> [k \in (DOMAIN c) \ gone |-> c[k]], removed |-> Cardinality(gone)]

\* mutant: the gauge is decremented without the test of line 69
DecInFlightAlways(n) == n - 1

\* Cache.DecInFlight
DecInFlight(n) == IF n > 0 THEN n - 1 ELSE n

(***************************************************************************)
(* Request engine (internal/server): token auth, policy gate, cache and    *)
(* single-flight, session-aware backend                                    *)
(***************************************************************************)
Token == "tok"

PresentedTokens == {"", "tok", "bad"}

\* mutant: any non-empty token is accepted
TokenAcceptedNonEmpty(tok) == ~(tok = "")

\* Server.auth line 191
TokenAccepted(tok) == ~(tok = "" \/ tok # Token)

RECURSIVE TrimLeft(_)
TrimLeft(s) == IF Len(s) > 0 /\ Head(s) = " " THEN TrimLeft(Tail(s)) ELSE s

RECURSIVE TrimRight(_)
TrimRight(s) ==
    IF Len(s) > 0 /\ s[Len(s)] = " " THEN TrimRight(SubSeq(s, 1, Len(s) - 1)) ELSE s

\* strings.TrimSpace
TrimSpace(s) == TrimRight(TrimLeft(s))

\* peer identity attached to the connection: <<>> when the probe failed,
\* else <<PeerInfo>>
NoPeer == <<>>
PeerGood == [PID |-> 7, Path |-> PathGood]
PeerBad == [PID |-> 8, Path |-> PathBad]
Peers == { NoPeer, <<PeerGood>>, <<PeerBad>> }

RefPA == <<"p", "a">>
ReqRefs == { RefPA, <<" ">> }
ReqFlagLists == { <<>>, << <<"-", "x">> >> }

PolicyAllowAll == [Allow |-> <<>>, DefaultDeny |-> FALSE]
PolicyGoodOnly ==
    [Allow |-> << [Path |-> PathGood, PathSHA256 |-> <<>>, PID |-> 0,
                   Refs |-> << <<"p", "*">> >>] >>,
     DefaultDeny |-> TRUE]

\* Server.validateAccess
validateAccess(peerInfo, ref) ==
    Allowed(srvPolicy, [PID |-> peerInfo.PID, Path |-> peerInfo.Path], ref)

\* mutant: the policy gate is missing
PolicyDeniesNever(peer, ref) == FALSE

\* Server.readOneWithFlags lines 378-382: the policy is consulted only when
\* peer information is attached to the request context
PolicyDenies(peer, ref) ==
    IF peer # NoPeer THEN ~validateAccess(peer[1], ref) ELSE FALSE

Response(status, body) ==
    [status |-> status, body |-> body, value |-> <<>>, fromCache |-> FALSE,
     expiresIn |-> 0, resolvedAt |-> 0]

\* protocol.ReadResponse written with status 200
ReadResponse(v, fromCache, expiresIn, resolvedAt) ==
    [status |-> 200, body |-> "json", value |-> v, fromCache |-> fromCache,
     expiresIn |-> expiresIn, resolvedAt |-> resolvedAt]

\* (ReadResponse, error) returned by readOneWithFlags / the thunk
ThunkOK(v, fromCache, expiresIn, resolvedAt) ==
    [err |-> "", value |-> v, fromCache |-> fromCache,
     expiresIn |-> expiresIn, resolvedAt |-> resolvedAt]

ThunkErr(e) ==
    [err |-> e, value |-> <<>>, fromCache |-> FALSE, expiresIn |-> 0, resolvedAt |-> 0]

\* nothing received, written or returned yet
NoReq == [tok |-> NoVal, peer |-> NoPeer, ref |-> <<>>, flags |-> <<>>]
NoResp == Response(0, NoVal)
NoRes == ThunkErr(NoVal)

\* the reference handleRead passes on, and the request's cache key
ReqRef(t) == TrimSpace(req[t].ref)
ReqKey(t) == cacheKey(ReqRef(t), req[t].flags)

Arrived(t) == kind[t] = "read" /\ pc[t] \notin {"idle", "handler"} /\ TokenAccepted(req[t].tok)

\* keys for which some backend call has completed successfully
FetchedKeys ==
    { ReqKey(t) : t \in { u \in beBy : pc[u] \in {"cache_set", "sf_done", "ret", "done"} } }

\* a request arrives and passes through Server.auth; the body is not read
\* and the peer identity not looked up before the token is accepted
Arrive(t) ==
    /\ pc[t] = "idle" /\ kind[t] = "read"
    /\ \E tok \in PresentedTokens :
          /\ req' = [req EXCEPT ![t] = [NoReq EXCEPT !.tok = tok]]
          /\ IF TokenAccepted(tok)
               THEN pc' = [pc EXCEPT ![t] = "handler"] /\ UNCHANGED resp
               ELSE /\ pc' = [pc EXCEPT ![t] = "done"]
                    /\ resp' = [resp EXCEPT ![t] = Response(401, "unauthorized")]
    /\ ops' = [ops EXCEPT ![t] = @ + 1]
    /\ UNCHANGED <<kind, vcur, vcb, vcalled, vres>>
    /\ UNCHANGED <<srvPolicy, sfm, secretVer, beBy, tres, joined, early, arrState>>
    /\ UNCHANGED <<envVars, keyVars, polVars, sessVars, cacheVars, statVars>>

\* Server.authWithPolicy and Server.handleRead up to the cache check of
\* readOneWithFlags: the peer identity is taken from the connection context,
\* the body decoded, the reference trimmed, an empty one refused, and the
\* policy gate applied
HandleRead(t) ==
    /\ pc[t] = "handler"
    /\ \E peer \in Peers, ref \in ReqRefs, fl \in ReqFlagLists :
          LET r == TrimSpace(ref)
          IN  /\ req' = [req EXCEPT ![t] = [tok |-> req[t].tok, peer |-> peer,
                                             ref |-> ref, flags |-> fl]]
              /\ early' = [early EXCEPT ![t] = cacheKey(r, fl) \notin FetchedKeys]
              /\ IF r = <<>>
                   THEN /\ pc' = [pc EXCEPT ![t] = "done"]
                        /\ resp' = [resp EXCEPT ![t] = Response(400, "ref required")]
                        /\ UNCHANGED tres
                   ELSE IF PolicyDenies(peer, r)
                     THEN /\ pc' = [pc EXCEPT ![t] = "done"]
                          /\ tres' = [tres EXCEPT ![t] = ThunkErr("access denied by policy")]
                          /\ resp' = [resp EXCEPT ![t] = Response(502, "failed to read secret")]
                     ELSE /\ pc' = [pc EXCEPT ![t] = "cache_check"]
                          /\ UNCHANGED <<resp, tres>>
    /\ arrState' = [arrState EXCEPT ![t] = sessState]
    /\ UNCHANGED <<kind, ops, vcur, vcb, vcalled, vres>>
    /\ UNCHANGED <<srvPolicy, sfm, secretVer, beBy, joined>>
    /\ UNCHANGED <<envVars, keyVars, polVars, sessVars, cacheVars, statVars>>

\* readOneWithFlags lines 391-397: cache check, hit or miss counters
CacheCheck(t) ==
    /\ pc[t] = "cache_check"
    /\ LET g == CacheGet(cache, ReqKey(t), now)
       IN  IF g.ok
             THEN /\ hits' = hits + 1
                  /\ resp' = [resp EXCEPT ![t] =
                                 ReadResponse(g.v, TRUE, g.exp - now, g.cached)]
                  /\ pc' = [pc EXCEPT ![t] = "done"]
                  /\ UNCHANGED <<misses, inflight>>
             ELSE /\ misses' = misses + 1
                  /\ inflight' = inflight + 1
                  /\ pc' = [pc EXCEPT ![t] = "sf_do"]
                  /\ UNCHANGED <<hits, resp>>
    /\ UNCHANGED <<kind, ops, vcur, vcb, vcalled, vres>>
    /\ UNCHANGED <<srvPolicy, sfm, secretVer, beBy, req, tres, joined, early, arrState>>
    /\ UNCHANGED <<envVars, keyVars, polVars, sessVars, cacheVars>>

\* mutant: no coalescing, every caller runs its own thunk
SfJoinsNever(t) == FALSE

\* singleflight.Group.Do: a call for the key is in progress
SfJoins(t) == \E c \in sfm : c.key = ReqKey(t)

\* singleflight.Group.Do: join the call in progress for the key, or
\* register a new call and run the thunk
SfDo(t) ==
    /\ pc[t] = "sf_do"
    /\ IF SfJoins(t)
         THEN /\ joined' = [joined EXCEPT ![t] =
                               (CHOOSE c \in sfm : c.key = ReqKey(t)).leader]
              /\ pc' = [pc EXCEPT ![t] = "sf_wait"]
              /\ UNCHANGED sfm
         ELSE /\ sfm' = sfm \cup {[key |-> ReqKey(t), leader |-> t]}
              /\ pc' = [pc EXCEPT ![t] = "recheck"]
              /\ UNCHANGED joined
    /\ UNCHANGED <<kind, ops, vcur, vcb, vcalled, vres>>
    /\ UNCHANGED <<srvPolicy, secretVer, beBy, req, resp, tres, early, arrState>>
    /\ UNCHANGED <<envVars, keyVars, polVars, sessVars, cacheVars, statVars>>

\* mutant: the thunk calls the backend without looking at the cache again
RecheckSkipped(t) ==
    /\ pc[t] = "recheck"
    /\ pc' = [pc EXCEPT ![t] = "v_read"]
    /\ UNCHANGED <<hits, tres>>
    /\ UNCHANGED <<kind, ops, vcur, vcb, vcalled, vres>>
    /\ UNCHANGED <<misses, inflight>>
    /\ UNCHANGED <<srvPolicy, sfm, secretVer, beBy, req, resp, joined, early, arrState>>
    /\ UNCHANGED <<envVars, keyVars, polVars, sessVars, cacheVars>>

\* the thunk, lines 400-404: the cache is checked again
Recheck(t) ==
    /\ pc[t] = "recheck"
    /\ LET g == CacheGet(cache, ReqKey(t), now)
       IN  IF g.ok
             THEN /\ hits' = hits + 1
                  /\ tres' = [tres EXCEPT ![t] = ThunkOK(g.v, TRUE, g.exp - now, g.cached)]
                  /\ pc' = [pc EXCEPT ![t] = "sf_done"]
             ELSE /\ pc' = [pc EXCEPT ![t] = "v_read"]
                  /\ UNCHANGED <<hits, tres>>
    /\ UNCHANGED <<kind, ops, vcur, vcb, vcalled, vres>>
    /\ UNCHANGED <<misses, inflight>>
    /\ UNCHANGED <<srvPolicy, sfm, secretVer, beBy, req, resp, joined, early, arrState>>
    /\ UNCHANGED <<envVars, keyVars, polVars, sessVars, cacheVars>>

\* the outcomes of the wrapped backend's call: exec.CommandContext (opcli.go
\* line 65) fails under a cancelled context, whatever the upstream holds
BackendOks(t) == IF ctxDone[t] THEN {FALSE} ELSE BOOLEAN

\* the error of a failed call
BackendErr(t) == IF ctxDone[t] THEN "context canceled" ELSE "backend read failed"

\* mutant: the result of a failed backend read is stored like a value
BackendReadStoresError(t) ==
    /\ pc[t] = "be_read"
    /\ beBy' = beBy \cup {t}
    /\ \E ok \in BackendOks(t) :
          IF ok
            THEN /\ tres' = [tres EXCEPT ![t] = ThunkOK(<<ReqKey(t), secretVer>>, FALSE, TTL, 0)]
                 /\ UpdateActivity
                 /\ pc' = [pc EXCEPT ![t] = "cache_set"]
            ELSE /\ tres' = [tres EXCEPT ![t] = ThunkErr(BackendErr(t))]
                 /\ UNCHANGED <<sessState, lastActivity, lockedAt>>
                 /\ pc' = [pc EXCEPT ![t] = "cache_set"]
    /\ UNCHANGED <<kind, ops, vcur, vcb, vcalled, vres>>
    /\ UNCHANGED <<sessCfg, hasLockCb, hasUnlockCb, monitor, lockCalls>>
    /\ UNCHANGED <<srvPolicy, sfm, secretVer, req, resp, joined, early, arrState>>
    /\ UNCHANGED <<envVars, keyVars, polVars, cacheVars, statVars>>

\* mutant: the activity is stamped also when the backend read fails
BackendReadStampsAlways(t) ==
    /\ pc[t] = "be_read"
    /\ beBy' = beBy \cup {t}
    /\ UpdateActivity
    /\ \E ok \in BackendOks(t) :
          IF ok
            THEN /\ tres' = [tres EXCEPT ![t] = ThunkOK(<<ReqKey(t), secretVer>>, FALSE, TTL, 0)]
                 /\ pc' = [pc EXCEPT ![t] = "cache_set"]
            ELSE /\ tres' = [tres EXCEPT ![t] = ThunkErr(BackendErr(t))]
                 /\ pc' = [pc EXCEPT ![t] = "sf_done"]
    /\ UNCHANGED <<kind, ops, vcur, vcb, vcalled, vres>>
    /\ UNCHANGED <<sessCfg, hasLockCb, hasUnlockCb, monitor, lockCalls>>
    /\ UNCHANGED <<srvPolicy, sfm, secretVer, req, resp, joined, early, arrState>>
    /\ UNCHANGED <<envVars, keyVars, polVars, cacheVars, statVars>>

\* SessionAwareBackend.ReadRefWithFlags lines 43-51, after ValidateSession
\* succeeded: the wrapped backend is read; on success UpdateActivity
BackendRead(t) ==
    /\ pc[t] = "be_read"
    /\ beBy' = beBy \cup {t}
    /\ \E ok \in BackendOks(t) :
          IF ok
            THEN /\ tres' = [tres EXCEPT ![t] = ThunkOK(<<ReqKey(t), secretVer>>, FALSE, TTL, 0)]
                 /\ UpdateActivity
                 /\ pc' = [pc EXCEPT ![t] = "cache_set"]
            ELSE /\ tres' = [tres EXCEPT ![t] = ThunkErr(BackendErr(t))]
                 /\ UNCHANGED <<sessState, lastActivity, lockedAt>>
                 /\ pc' = [pc EXCEPT ![t] = "sf_done"]
    /\ UNCHANGED <<kind, ops, vcur, vcb, vcalled, vres>>
    /\ UNCHANGED <<sessCfg, hasLockCb, hasUnlockCb, monitor, lockCalls>>
    /\ UNCHANGED <<srvPolicy, sfm, secretVer, req, resp, joined, early, arrState>>
    /\ UNCHANGED <<envVars, keyVars, polVars, cacheVars, statVars>>

\* the thunk, lines 412-413: the value is stored and the response stamped
ThunkStore(t) ==
    /\ pc[t] = "cache_set"
    /\ cache' = CacheSet(cache, ReqKey(t), tres[t].value, now)
    /\ tres' = [tres EXCEPT ![t] = ThunkOK(tres[t].value, FALSE, TTL, now)]
    /\ pc' = [pc EXCEPT ![t] = "sf_done"]
    /\ UNCHANGED <<kind, ops, vcur, vcb, vcalled, vres>>
    /\ UNCHANGED <<srvPolicy, sfm, secretVer, beBy, req, resp, joined, early, arrState>>
    /\ UNCHANGED <<envVars, keyVars, polVars, sessVars, statVars>>

\* singleflight: the thunk has returned; the call is removed from the group
\* and its result handed to the leader and to every waiter
FlightFinish(t) ==
    /\ pc[t] \in {"sf_done", "thunk_err"}
    /\ LET result == IF pc[t] = "thunk_err" THEN ThunkErr("session validation failed") ELSE tres[t]
           waiters == { w \in Threads : pc[w] = "sf_wait" /\ joined[w] = t }
       IN  /\ sfm' = { c \in sfm : c.leader # t }
           /\ tres' = [w \in Threads |-> IF w \in waiters \cup {t} THEN result ELSE tres[w]]
           /\ pc' = [w \in Threads |-> IF w \in waiters \cup {t} THEN "ret" ELSE pc[w]]
           /\ joined' = [w \in Threads |-> IF w \in waiters THEN 0 ELSE joined[w]]
    /\ UNCHANGED <<kind, ops, vcur, vcb, vcalled, vres>>
    /\ UNCHANGED <<srvPolicy, secretVer, beBy, req, resp, early, arrState>>
    /\ UNCHANGED <<envVars, keyVars, polVars, sessVars, cacheVars, statVars>>

\* readOneWithFlags lines 415-422 with the deferred DecInFlight, and
\* handleRead's response
Return(t) ==
    /\ pc[t] = "ret"
    /\ inflight' = DecInFlight(inflight)
    /\ resp' = [resp EXCEPT ![t] =
                   IF tres[t].err = ""
                     THEN ReadResponse(tres[t].value, tres[t].fromCache,
                                       tres[t].expiresIn, tres[t].resolvedAt)
                     ELSE Response(502, "failed to read secret")]
    /\ pc' = [pc EXCEPT ![t] = "done"]
    /\ UNCHANGED <<kind, ops, vcur, vcb, vcalled, vres>>
    /\ UNCHANGED <<hits, misses>>
    /\ UNCHANGED <<srvPolicy, sfm, secretVer, beBy, req, tres, joined, early, arrState>>
    /\ UNCHANGED <<envVars, keyVars, polVars, sessVars, cacheVars>>

\* the secret is changed upstream
MaxSecretVer == 2

Rotate ==
    /\ secretVer < MaxSecretVer
    /\ secretVer' = secretVer + 1
    /\ UNCHANGED <<srvPolicy, sfm, beBy, req, resp, tres, joined, early, arrState>>
    /\ UNCHANGED <<envVars, keyVars, polVars, sessVars, thrVars, cacheVars, statVars>>

ServerThreadInit ==
    /\ sfm = {}
    /\ secretVer = 1
    /\ beBy = {}
    /\ req = [t \in Threads |-> NoReq]
    /\ resp = [t \in Threads |-> NoResp]
    /\ tres = [t \in Threads |-> NoRes]
    /\ joined = [t \in Threads |-> 0]
    /\ early = [t \in Threads |-> FALSE]
    /\ arrState = [t \in Threads |-> NoVal]
    /\ hits = 0 /\ misses = 0 /\ inflight = 0

ServerIdle == srvPolicy = PolicyAllowAll /\ ServerThreadInit

(***************************************************************************)
(* Direct callers of the Manager (as in manager_test.go)                   *)
(***************************************************************************)
MaxOps == 2

CanStart(t) == pc[t] = "idle" /\ kind[t] = "client" /\ ops[t] < MaxOps

Started(t) == ops' = [ops EXCEPT ![t] = @ + 1]

ClientValidate(t) ==
    /\ CanStart(t)
    /\ Started(t)
    /\ pc' = [pc EXCEPT ![t] = "v_read"]
    /\ UNCHANGED <<kind, vcur, vcb, vcalled, vres>>
    /\ UNCHANGED <<envVars, keyVars, polVars, sessVars, cacheVars, statVars, srvVars>>

ClientUpdateActivity(t) ==
    /\ CanStart(t)
    /\ Started(t)
    /\ UpdateActivity
    /\ UNCHANGED <<pc, kind, vcur, vcb, vcalled, vres>>
    /\ UNCHANGED <<sessCfg, hasLockCb, hasUnlockCb, monitor, lockCalls>>
    /\ UNCHANGED <<envVars, keyVars, polVars, cacheVars, statVars, srvVars>>

ClientMarkLocked(t) ==
    /\ CanStart(t)
    /\ Started(t)
    /\ MarkLocked
    /\ UNCHANGED <<pc, kind, vcur, vcb, vcalled, vres>>
    /\ UNCHANGED <<sessCfg, hasLockCb, hasUnlockCb, monitor>>
    /\ UNCHANGED <<envVars, keyVars, polVars, statVars, srvVars>>

ClientMarkAuthenticated(t) ==
    /\ CanStart(t)
    /\ Started(t)
    /\ MarkAuthenticated
    /\ UNCHANGED <<pc, kind, vcur, vcb, vcalled, vres>>
    /\ UNCHANGED <<sessCfg, hasLockCb, hasUnlockCb, monitor, lockCalls>>
    /\ UNCHANGED <<envVars, keyVars, polVars, cacheVars, statVars, srvVars>>

(***************************************************************************)
(* POST /v1/session/unlock (Server.auth, Server.handleSessionUnlock)       *)
(***************************************************************************)
\* mutant: the status is 200 whatever ValidateSession returned
UnlockStatusAlwaysOK(res) == 200

\* handleSessionUnlock lines 293-296: 401 when ValidateSession failed
UnlockStatus(res) == IF res = "ok" THEN 200 ELSE 401

\* protocol.SessionUnlockResponse with its HTTP status
UnlockResponse(status, success, state) ==
    [status |-> status, body |-> "json", success |-> success, state |-> state]

\* the request arrives: token check, then s.Session == nil (the daemon
\* creates the manager only with enable-session-lock) is answered at once,
\* else ValidateSession is called
UnlockArrive(t) ==
    /\ CanStart(t)
    /\ Started(t)
    /\ \E tok \in PresentedTokens :
          IF ~TokenAccepted(tok)
            THEN /\ resp' = [resp EXCEPT ![t] = Response(401, "unauthorized")]
                 /\ UNCHANGED <<pc, kind>>
            ELSE IF ~sessCfg.EnableSessionLock
              THEN /\ resp' = [resp EXCEPT ![t] = UnlockResponse(400, FALSE, "disabled")]
                   /\ UNCHANGED <<pc, kind>>
              ELSE /\ pc' = [pc EXCEPT ![t] = "v_read"]
                   /\ kind' = [kind EXCEPT ![t] = "unlock"]
                   /\ resp' = [resp EXCEPT ![t] = NoResp]
    /\ UNCHANGED <<vcur, vcb, vcalled, vres>>
    /\ UNCHANGED <<srvPolicy, sfm, secretVer, beBy, req, tres, joined, early, arrState>>
    /\ UNCHANGED <<envVars, keyVars, polVars, sessVars, cacheVars, statVars>>

\* handleSessionUnlock lines 285-300: GetInfo after ValidateSession returned,
\* and the response
UnlockRespond(t) ==
    /\ pc[t] = "u_info"
    /\ resp' = [resp EXCEPT ![t] =
                   UnlockResponse(UnlockStatus(vres[t]), vres[t] = "ok", sessState)]
    /\ pc' = [pc EXCEPT ![t] = "idle"]
    /\ kind' = [kind EXCEPT ![t] = "client"]
    /\ UNCHANGED <<ops, vcur, vcb, vcalled, vres>>
    /\ UNCHANGED <<srvPolicy, sfm, secretVer, beBy, req, tres, joined, early, arrState>>
    /\ UNCHANGED <<envVars, keyVars, polVars, sessVars, cacheVars, statVars>>

(***************************************************************************)
(* POST /v1/reads and POST /v1/resolve (Server.handleReads,                *)
(* Server.handleResolve): one request served on its own.  The answer of    *)
(* s.Backend.ReadRefWithFlags to each call is an input.                    *)
(***************************************************************************)
MaxBatch == 3

BatchRefs == { RefPA, <<"p", "b">>, <<"q">>, <<" ">> }

BackendOutcomes == { "ok", "session validation failed", "backend read failed" }

BatchRequests ==
    UNION { [endpoint : {"reads", "resolve"}, peer : {NoPeer, <<PeerGood>>},
             flags : {<<>>}, refs : [1..n -> BatchRefs],
             outcomes : [1..n -> BackendOutcomes]] : n \in 0..MaxBatch }

\* m[k] = v for a Go map held as a function
MapPut(m, k, v) == [x \in (DOMAIN m) \cup {k} |-> IF x = k THEN v ELSE m[x]]

\* Server.readOneWithFlags run without a concurrent request for the key:
\* policy check, cache check, single-flight thunk (whose re-check finds what
\* the first check found), backend call, Cache.Set.  st = [cache, hits, misses]
readOneWithFlags(st, peer, ref, flags, outcome) ==
    IF PolicyDenies(peer, ref)
      THEN [st |-> st, res |-> ThunkErr("access denied by policy")]
      ELSE LET key == cacheKey(ref, flags)
               g == CacheGet(st.cache, key, now)
               val == <<key, secretVer>>
           IN  IF g.ok
                 THEN [st |-> [st EXCEPT !.hits = @ + 1],
                       res |-> ThunkOK(g.v, TRUE, g.exp - now, g.cached)]
               ELSE IF outcome = "ok"
                 THEN [st |-> [st EXCEPT !.misses = @ + 1,
                                         !.cache = CacheSet(st.cache, key, val, now)],
                       res |-> ThunkOK(val, FALSE, TTL, now)]
               ELSE [st |-> [st EXCEPT !.misses = @ + 1], res |-> ThunkErr(outcome)]

\* protocol.ReadResponse as an entry of the reads result
ReadsEntry(ref, res) ==
    [ref |-> ref, value |-> res.value, fromCache |-> res.fromCache,
     expiresIn |-> res.expiresIn, resolvedAt |-> res.resolvedAt]

ErrorMarker == <<"ERROR: failed to read secret">>

\* mutant: a failed reference is recorded without the error marker
ErrorEntryNoMarker(ref) ==
    [ref |-> ref, value |-> <<>>, fromCache |-> FALSE, expiresIn |-> 0, resolvedAt |-> now]

\* handleReads line 342: the entry recorded for a reference that failed
ErrorEntry(ref) ==
    [ref |-> ref, value |-> ErrorMarker, fromCache |-> FALSE, expiresIn |-> 0,
     resolvedAt |-> now]

\* handleReads lines 332-346: the loop over req.Refs from position i on
RECURSIVE ReadsLoop(_, _, _)
ReadsLoop(st, results, i) ==
    IF i > Len(bin.refs) THEN [st |-> st, results |-> results]
    ELSE LET ref == TrimSpace(bin.refs[i])
         IN  IF ref = <<>> THEN ReadsLoop(st, results, i + 1)
             ELSE LET r == readOneWithFlags(st, bin.peer, ref, bin.flags, bin.outcomes[i])
                  IN  IF r.res.err # ""
                        THEN ReadsLoop(r.st, MapPut(results, ref, ErrorEntry(ref)), i + 1)
                        ELSE ReadsLoop(r.st, MapPut(results, ref, ReadsEntry(ref, r.res)), i + 1)

\* mutant: a failed reference is skipped and the resolve goes on
ResolveAbortsNever(res) == FALSE

\* handleResolve line 359: an error of readOneWithFlags ends the request
ResolveAborts(res) == res.err # ""

\* handleResolve lines 358-368: the loop over req.Env, whose i-th entry in
\* iteration order has the name i and the reference bin.refs[i]
RECURSIVE ResolveLoop(_, _, _)
ResolveLoop(st, out, i) ==
    IF i > Len(bin.refs)
      THEN [st |-> st, status |-> 200, body |-> <<>>, env |-> out]
      ELSE LET r == readOneWithFlags(st, bin.peer, bin.refs[i], bin.flags, bin.outcomes[i])
           IN  IF ResolveAborts(r.res)
                 THEN [st |-> r.st, status |-> 502,
                       body |-> <<"resolve", i, "failed to read secret">>, env |-> << >>]
                 ELSE ResolveLoop(r.st, MapPut(out, i, r.res.value), i + 1)

BatchState == [cache |-> cache, hits |-> hits, misses |-> misses]

BatchInit ==
    /\ bin \in BatchRequests
    /\ bout = <<>>

\* Server.handleReads
HandleReads ==
    /\ bout = <<>> /\ bin.endpoint = "reads"
    /\ LET r == ReadsLoop(BatchState, << >>, 1)
       IN  /\ bout' = << [status |-> 200, results |-> r.results] >>
           /\ cache' = r.st.cache
           /\ hits' = r.st.hits
           /\ misses' = r.st.misses
    /\ UNCHANGED <<kin, kout, bin, oin, oout, extVars, inflight>>
    /\ UNCHANGED <<polVars, envVars, sessVars, thrVars, srvVars>>

\* Server.handleResolve
HandleResolve ==
    /\ bout = <<>> /\ bin.endpoint = "resolve"
    /\ LET r == ResolveLoop(BatchState, << >>, 1)
       IN  /\ bout' = << [status |-> r.status, body |-> r.body, env |-> r.env] >>
           /\ cache' = r.st.cache
           /\ hits' = r.st.hits
           /\ misses' = r.st.misses
    /\ UNCHANGED <<kin, kout, bin, oin, oout, extVars, inflight>>
    /\ UNCHANGED <<polVars, envVars, sessVars, thrVars, srvVars>>

(***************************************************************************)
(* External-command backend (internal/backend/opcli.go)                    *)
(***************************************************************************)
MaxOpFlags == 2

OpPrefix == <<"o", "p", ":", "/", "/">>

\* the backquote character, which cannot be written in a string here
Backquote == "backquote"

OpRefs == { OpPrefix \o <<"v">>, <<"-">> \o OpPrefix \o <<"v">>,
            <<" ">> \o OpPrefix \o <<"v">>, <<"o", "p", ":", "/", "v">>,
            <<"x">>, <<" ">>, <<>> }

OpFlags == { <<>>, <<"-", "a">>, <<"a">>, <<"-", "a", ";", "b">>, <<"-", "a", "$", "b">>,
             <<"-", Backquote>>, <<"-", "a", "|", "b">>, <<"-", "(", "a", ")">>,
             <<"-", "a", "&">> }

OpFlagLists == SeqsUpTo(OpFlags, MaxOpFlags)

\* strings.ContainsAny
ContainsAny(s, chars) == \E i \in 1..Len(s) : s[i] \in chars

\* mutant: no character is considered unsafe
UnsafeCharsNone == {}

\* opcli.go line 47: the characters refused in a flag
UnsafeChars == { ";", "&", "|", Backquote, "$", "(", ")" }

\* opcli.go lines 39-50: the flags are checked in order; "" when all pass
RECURSIVE OpcliCheckFlags(_, _)
OpcliCheckFlags(flags, i) ==
    IF i > Len(flags) THEN ""
    ELSE IF flags[i] = <<>> THEN OpcliCheckFlags(flags, i + 1)
    ELSE IF ~HasPrefix(flags[i], <<"-">>) THEN "invalid flag format: must start with dash"
    ELSE IF ContainsAny(flags[i], UnsafeChars)
      THEN "invalid flag format: contains unsafe characters"
    ELSE OpcliCheckFlags(flags, i + 1)

\* opcli.go lines 24-50: the validation error, or "" when op is to be run
OpcliValidate(ref, flags) ==
    IF TrimSpace(ref) = <<>> THEN "empty ref"
    ELSE IF HasPrefix(ref, <<"-">>) THEN "invalid reference format: cannot start with dash"
    ELSE IF ~HasPrefix(ref, OpPrefix) THEN "invalid reference format: must start with op://"
    ELSE OpcliCheckFlags(flags, 1)

\* opcli.go lines 53-63: the arguments of the op subprocess
OpcliArgs(ref, flags) ==
    SelectSeq(flags, LAMBDA f : f # <<>>) \o << <<"read">>, <<"--no-color">>, ref >>

OpcliInit ==
    /\ oin \in [ref : OpRefs, flags : OpFlagLists]
    /\ oout = <<>>

\* OpCLI.ReadRefWithFlags: validation, then the subprocess, which succeeds
\* or fails
OpcliRead ==
    /\ oout = <<>>
    /\ LET e == OpcliValidate(oin.ref, oin.flags)
       IN  IF e # ""
             THEN oout' = << [err |-> e, spawned |-> FALSE, args |-> <<>>] >>
             ELSE \E ok \in BOOLEAN :
                    oout' = << [err |-> IF ok THEN "" ELSE "op read failed",
                                spawned |-> TRUE,
                                args |-> OpcliArgs(oin.ref, oin.flags)] >>
    /\ UNCHANGED <<kin, kout, bin, bout, oin, extVars>>
    /\ UNCHANGED <<polVars, envVars, sessVars, thrVars, cacheVars, statVars, srvVars>>

\* Manager after NewManager (state Unknown, lastActivity = now), before Start
ManagerInit ==
    /\ sessState = SessionUnknown
    /\ lastActivity = now
    /\ lockedAt = 0
    /\ monitor = "new"
    /\ lockCalls = 0

ThreadInit(k) ==
    /\ pc = [t \in Threads |-> "idle"]
    /\ kind = [t \in Threads |-> k]
    /\ ops = [t \in Threads |-> 0]
    /\ vcur = [t \in Threads |-> NoVal]
    /\ vcb = [t \in Threads |-> NoVal]
    /\ vcalled = [t \in Threads |-> FALSE]
    /\ vres = [t \in Threads |-> NoVal]

vars == <<keyVars, polVars, envVars, sessVars, thrVars, cacheVars, statVars, srvVars>>

BatchIdle == bin = NoVal /\ bout = <<>>

OpcliIdle == oin = NoVal /\ oout = <<>>

MultiIdle == mbin = NoVal /\ mbout = <<>>

\* a thread that executes no Cache method
NoCall == [pc |-> "idle", op |-> NoVal, key |-> NoVal, val |-> <<>>, ok |-> FALSE,
           e |-> [v |-> 0, exp |-> 0, cached |-> 0], todo |-> {}, zobj |-> 0, zi |-> 0,
           n |-> 0]

\* cache.New: an empty map, the mutex free
ConIdle ==
    /\ cdata = << >> /\ heap = << >> /\ cmu = 0
    /\ cth = [t \in Threads |-> NoCall]
    /\ cret = [t \in Threads |-> <<>>]
    /\ cstored = {}

\* every request context is live
CtxIdle == ctxDone = [t \in Threads |-> FALSE]

\* the goroutines of SpecLocks: the callers and the idle loop
MonitorProc == 3
LkProcs == Threads \cup {MonitorProc}

FreeMutex == [w |-> 0, r |-> {}, q |-> {}]

\* a goroutine outside every call
NoLkCall == [op |-> NoVal, todo |-> << >>, snap |-> NoVal, res |-> NoVal, hit |-> FALSE, n |-> 0]

\* both mutexes free, no call in progress
LkIdle ==
    /\ mus = [m \in {"sess", "cache"} |-> FreeMutex]
    /\ lth = [p \in LkProcs |-> NoLkCall]

NoFile == "ENOENT"

\* a process outside EnsureToken
NoTokCall == [pc |-> "idle", tok |-> NoVal, ret |-> NoVal, err |-> FALSE, n |-> 0]

\* no token file, no call made
TokIdle ==
    /\ tfs = [f \in {"token", "token.tmp"} |-> NoFile]
    /\ tth = [t \in Threads |-> NoTokCall]
    /\ trets = {}

\* the root context live, both channels open, Serve has launched the cache
\* cleanup goroutine, Stop not called
LifeInit == life = [ctx |-> "live", stopCh |-> "open", doneCh |-> "open",
                    cleaner |-> "running", stop |-> "none"]

MoreIdle == CtxIdle /\ LkIdle /\ TokIdle /\ clOut = << >> /\ lockCbFails = FALSE /\ LifeInit

ExtIdle == MultiIdle /\ ConIdle /\ auditLog = << >> /\ MoreIdle

PureIdle ==
    /\ kin = NoVal /\ kout = <<>> /\ pin = NoVal /\ pout = <<>>
    /\ BatchIdle /\ OpcliIdle /\ ExtIdle

SysIdle ==
    /\ now = 1 /\ cliOK = TRUE
    /\ sessCfg = [EnableSessionLock |-> FALSE, SessionIdleTimeout |-> 0,
                  LockOnAuthFailure |-> FALSE]
    /\ hasLockCb = FALSE /\ hasUnlockCb = FALSE
    /\ ManagerInit
    /\ ThreadInit("client")
    /\ cache = << >>
    /\ ServerIdle

(***************************************************************************)
(* SpecKey: the fingerprint function on bounded inputs                     *)
(***************************************************************************)
SpecKeyInit ==
    /\ KeyInit /\ pin = NoVal /\ pout = <<>> /\ BatchIdle /\ OpcliIdle /\ ExtIdle
    /\ SysIdle
SpecKeyNext == KeyCompute
SpecKey == SpecKeyInit /\ [][SpecKeyNext]_vars

(***************************************************************************)
(* SpecPolicy: the policy evaluator on bounded inputs                      *)
(***************************************************************************)
SpecPolicyInit ==
    /\ PolicyInit /\ kin = NoVal /\ kout = <<>> /\ BatchIdle /\ OpcliIdle /\ ExtIdle
    /\ SysIdle
SpecPolicyNext == PolicyEval
SpecPolicy == SpecPolicyInit /\ [][SpecPolicyNext]_vars

(***************************************************************************)
(* SpecSession: the session manager driven by direct callers, the idle     *)
(* loop and the clock.  SpecSessionFair adds the scheduling of the clock   *)
(* and of the idle loop's ticker.                                          *)
(***************************************************************************)
MaxIdleTimeout == 1

SpecSessionInit ==
    /\ PureIdle
    /\ now = 1
    /\ cliOK \in BOOLEAN
    /\ sessCfg \in [EnableSessionLock : BOOLEAN, SessionIdleTimeout : 0..MaxIdleTimeout,
                   LockOnAuthFailure : {TRUE}]
    /\ hasLockCb \in BOOLEAN
    /\ hasUnlockCb \in BOOLEAN
    /\ ManagerInit
    /\ ThreadInit("client")
    /\ cache = << >>
    /\ ServerIdle

SpecSessionNext ==
    \/ Tick
    \/ CliToggle
    \/ Start
    \/ checkIdleTimeout
    \/ \E t \in Threads : ClientValidate(t)
    \/ \E t \in Threads : ClientUpdateActivity(t)
    \/ \E t \in Threads : ClientMarkLocked(t)
    \/ \E t \in Threads : ClientMarkAuthenticated(t)
    \/ \E t \in Threads : ValidateRead(t)
    \/ \E t \in Threads : ValidateCallback(t)
    \/ \E t \in Threads : ValidateApply(t)

SpecSession == SpecSessionInit /\ [][SpecSessionNext]_vars

\* SpecLockErr: the Manager with a registered lock callback that returns an
\* error whenever it is called
SpecLockErrInit ==
    /\ kin = NoVal /\ kout = <<>> /\ pin = NoVal /\ pout = <<>>
    /\ BatchIdle /\ OpcliIdle /\ MultiIdle /\ ConIdle /\ auditLog = << >>
    /\ CtxIdle /\ LkIdle /\ TokIdle /\ clOut = << >> /\ LifeInit
    /\ lockCbFails = TRUE
    /\ now = 1
    /\ cliOK \in BOOLEAN
    /\ sessCfg \in [EnableSessionLock : BOOLEAN, SessionIdleTimeout : 0..MaxIdleTimeout,
                   LockOnAuthFailure : {TRUE}]
    /\ hasLockCb = TRUE
    /\ hasUnlockCb \in BOOLEAN
    /\ ManagerInit
    /\ ThreadInit("client")
    /\ cache = << >>
    /\ ServerIdle

SpecLockErr == SpecLockErrInit /\ [][SpecSessionNext]_vars

SpecSessionFair ==
    /\ SpecSessionInit
    /\ [][SpecSessionNext]_vars
    /\ WF_vars(Tick)
    /\ WF_vars(checkIdleTimeout)

(***************************************************************************)
(* SpecBatch: a reads or resolve request on bounded inputs, under the      *)
(* default-deny policy                                                     *)
(***************************************************************************)
SpecBatchInit ==
    /\ BatchInit
    /\ kin = NoVal /\ kout = <<>> /\ pin = NoVal /\ pout = <<>> /\ OpcliIdle /\ ExtIdle
    /\ now = 1
    /\ cliOK = TRUE
    /\ sessCfg = [EnableSessionLock |-> TRUE, SessionIdleTimeout |-> MaxIdleTimeout,
                  LockOnAuthFailure |-> TRUE]
    /\ hasLockCb = TRUE
    /\ hasUnlockCb = TRUE
    /\ sessState = SessionUnknown
    /\ lastActivity = now
    /\ lockedAt = 0
    /\ monitor = "running"
    /\ lockCalls = 0
    /\ ThreadInit("read")
    /\ cache = << >>
    /\ srvPolicy = PolicyGoodOnly
    /\ ServerThreadInit

SpecBatchNext == HandleReads \/ HandleResolve

SpecBatch == SpecBatchInit /\ [][SpecBatchNext]_vars

(***************************************************************************)
(* The reads and resolve endpoints on references with surrounding          *)
(* whitespace                                                              *)
(***************************************************************************)
MaxPadBatch == 2

\* a reference, and the same reference with a leading or a trailing blank
PaddedRefs == { RefPA, <<" ">> \o RefPA, RefPA \o <<" ">> }

PaddedRequests ==
    UNION { [endpoint : {"reads", "resolve"}, peer : {NoPeer, <<PeerGood>>},
             flags : {<<>>}, refs : [1..n -> PaddedRefs],
             outcomes : [1..n -> BackendOutcomes]] : n \in 0..MaxPadBatch }

SpecPadInit ==
    /\ bin \in PaddedRequests
    /\ bout = <<>>
    /\ kin = NoVal /\ kout = <<>> /\ pin = NoVal /\ pout = <<>> /\ OpcliIdle /\ ExtIdle
    /\ now = 1
    /\ cliOK = TRUE
    /\ sessCfg = [EnableSessionLock |-> TRUE, SessionIdleTimeout |-> MaxIdleTimeout,
                  LockOnAuthFailure |-> TRUE]
    /\ hasLockCb = TRUE
    /\ hasUnlockCb = TRUE
    /\ sessState = SessionUnknown
    /\ lastActivity = now
    /\ lockedAt = 0
    /\ monitor = "running"
    /\ lockCalls = 0
    /\ ThreadInit("read")
    /\ cache = << >>
    /\ srvPolicy = PolicyGoodOnly
    /\ ServerThreadInit

SpecPad == SpecPadInit /\ [][SpecBatchNext]_vars

(***************************************************************************)
(* SpecOpcli: OpCLI.ReadRefWithFlags on bounded inputs                     *)
(***************************************************************************)
SpecOpcliInit ==
    /\ OpcliInit
    /\ kin = NoVal /\ kout = <<>> /\ pin = NoVal /\ pout = <<>> /\ BatchIdle /\ ExtIdle
    /\ SysIdle

SpecOpcliNext == OpcliRead

SpecOpcli == SpecOpcliInit /\ [][SpecOpcliNext]_vars

(***************************************************************************)
(* SpecUnlock: the unlock endpoint, with callers that lock the session and *)
(* the idle loop                                                           *)
(***************************************************************************)
SpecUnlockInit ==
    /\ PureIdle
    /\ now = 1
    /\ cliOK \in BOOLEAN
    /\ sessCfg \in [EnableSessionLock : BOOLEAN, SessionIdleTimeout : 0..MaxIdleTimeout,
                   LockOnAuthFailure : {TRUE}]
    /\ hasLockCb = TRUE
    /\ hasUnlockCb = TRUE
    /\ sessState = SessionUnknown
    /\ lastActivity = now
    /\ lockedAt = 0
    /\ monitor = IF sessCfg.EnableSessionLock THEN "running" ELSE "disabled"
    /\ lockCalls = 0
    /\ ThreadInit("client")
    /\ cache = << >>
    /\ ServerIdle

SpecUnlockNext ==
    \/ Tick
    \/ CliToggle
    \/ checkIdleTimeout
    \/ \E t \in Threads : ClientMarkLocked(t)
    \/ \E t \in Threads : UnlockArrive(t)
    \/ \E t \in Threads : ValidateRead(t)
    \/ \E t \in Threads : ValidateCallback(t)
    \/ \E t \in Threads : ValidateApply(t)
    \/ \E t \in Threads : UnlockRespond(t)

SpecUnlock == SpecUnlockInit /\ [][SpecUnlockNext]_vars

(***************************************************************************)
(* Spec: the daemon after Server.Serve has wired the session callbacks     *)
(* (setupSessionLockCallback) and started the idle loop, serving read      *)
(* requests with the session-aware backend of cmd/opx-authd/main.go        *)
(***************************************************************************)
Init ==
    /\ PureIdle
    /\ now = 1
    /\ cliOK = TRUE
    /\ sessCfg = [EnableSessionLock |-> TRUE, SessionIdleTimeout |-> MaxIdleTimeout,
                  LockOnAuthFailure |-> TRUE]
    /\ hasLockCb = TRUE
    /\ hasUnlockCb = TRUE
    /\ sessState = SessionUnknown
    /\ lastActivity = now
    /\ lockedAt = 0
    /\ monitor = "running"
    /\ lockCalls = 0
    /\ ThreadInit("read")
    /\ cache = << >>
    /\ srvPolicy = PolicyGoodOnly
    /\ ServerThreadInit

Next ==
    \/ Tick
    \/ CliToggle
    \/ Rotate
    \/ checkIdleTimeout
    \/ \E t \in Threads : Arrive(t)
    \/ \E t \in Threads : HandleRead(t)
    \/ \E t \in Threads : CacheCheck(t)
    \/ \E t \in Threads : SfDo(t)
    \/ \E t \in Threads : Recheck(t)
    \/ \E t \in Threads : ValidateRead(t)
    \/ \E t \in Threads : ValidateCallback(t)
    \/ \E t \in Threads : ValidateApply(t)
    \/ \E t \in Threads : BackendRead(t)
    \/ \E t \in Threads : ThunkStore(t)
    \/ \E t \in Threads : FlightFinish(t)
    \/ \E t \in Threads : Return(t)

Spec == Init /\ [][Next]_vars

(***************************************************************************)
(* SpecCancel: the same daemon with clients that may go away.  net/http    *)
(* cancels r.Context() when the client's connection closes; handleRead     *)
(* passes that context to readOneWithFlags, whose thunk derives the        *)
(* context of the backend call from it (part_011 line 406).  The upstream  *)
(* session stays signed in and the secrets are not rotated.                *)
(***************************************************************************)
CancelOthers == <<kin, kout, bin, bout, oin, oout, mbin, mbout, conVars, auditLog, lkVars, tokVars, clOut, lockCbFails, life>>

\* the client of request t disconnects while the request is being served
Cancel(t) ==
    /\ kind[t] = "read" /\ pc[t] \notin {"idle", "handler", "done"}
    /\ ~ctxDone[t]
    /\ ctxDone' = [ctxDone EXCEPT ![t] = TRUE]
    /\ UNCHANGED CancelOthers
    /\ UNCHANGED <<polVars, envVars, sessVars, thrVars, cacheVars, statVars, srvVars>>

SpecCancelNext ==
    \/ Tick
    \/ checkIdleTimeout
    \/ \E t \in Threads : Cancel(t)
    \/ \E t \in Threads : Arrive(t)
    \/ \E t \in Threads : HandleRead(t)
    \/ \E t \in Threads : CacheCheck(t)
    \/ \E t \in Threads : SfDo(t)
    \/ \E t \in Threads : Recheck(t)
    \/ \E t \in Threads : ValidateRead(t)
    \/ \E t \in Threads : ValidateCallback(t)
    \/ \E t \in Threads : ValidateApply(t)
    \/ \E t \in Threads : BackendRead(t)
    \/ \E t \in Threads : ThunkStore(t)
    \/ \E t \in Threads : FlightFinish(t)
    \/ \E t \in Threads : Return(t)

SpecCancel == Init /\ [][SpecCancelNext]_vars

(***************************************************************************)
(* SpecLocks: the lock discipline of the session Manager (Manager.mu) and  *)
(* of the Cache (Cache.mu), both sync.RWMutex, with the server's lock      *)
(* callback installed.  A call is the list of the steps it still has to    *)
(* take: <<"Lock", m>>, <<"RLock", m>>, <<"Unlock", m>>, <<"RUnlock", m>>   *)
(* and <<"do", x>> for the code between them.  A writer that waits for a   *)
(* sync.RWMutex keeps new readers out.                                     *)
(***************************************************************************)
MaxLkOps == 1

LkKey == <<"k">>
LkVal == <<"v">>

\* the calls a goroutine serving requests makes
LkOps == {"UpdateActivity", "GetInfo", "ValidateSession", "MarkLocked", "Read"}

\* mutant: the lock callback asks the Manager for its state before clearing
LockCallbackReentrant ==
    << <<"RLock", "sess">>, <<"do", "GetInfo">>, <<"RUnlock", "sess">>,
       <<"Lock", "cache">>, <<"do", "Clear">>, <<"Unlock", "cache">> >>

\* the server's lock callback: s.Cache.Clear()
LockCallback ==
    << <<"Lock", "cache">>, <<"do", "Clear">>, <<"Unlock", "cache">> >>

\* the steps of each method, up to the first decision it takes
LkProgram(op) ==
    CASE op = "UpdateActivity" ->
           << <<"Lock", "sess">>, <<"do", "UpdateActivity">>, <<"Unlock", "sess">> >>
      [] op = "GetInfo" ->
           << <<"RLock", "sess">>, <<"do", "GetInfo">>, <<"RUnlock", "sess">> >>
      [] op = "MarkLocked" ->
           << <<"Lock", "sess">>, <<"do", "MarkLocked">>, <<"Unlock", "sess">> >>
      [] op = "checkIdleTimeout" ->
           << <<"Lock", "sess">>, <<"do", "checkIdleTimeout">>, <<"Unlock", "sess">> >>
      [] op = "MarkAuthenticated" ->
           << <<"Lock", "sess">>, <<"do", "MarkAuthenticated">>, <<"Unlock", "sess">> >>
      [] op = "ValidateSession" ->
           << <<"RLock", "sess">>, <<"do", "Snapshot">>, <<"RUnlock", "sess">>,
              <<"do", "Dispatch">> >>
      [] op = "attemptUnlock" ->
           << <<"Lock", "sess">>, <<"do", "GetInfo">>, <<"Unlock", "sess">>,
              <<"do", "Unlock">> >>
      [] op = "assumeLocked" ->
           << <<"Lock", "sess">>, <<"do", "SetLocked">>, <<"Unlock", "sess">> >>
      [] op = "Read" ->
           << <<"RLock", "cache">>, <<"do", "Get">>, <<"RUnlock", "cache">>,
              <<"do", "AfterGet">> >>
      [] op = "Set" ->
           << <<"Lock", "cache">>, <<"do", "Set">>, <<"Unlock", "cache">> >>

LkHead(p) == Head(lth[p].todo)
LkRest(p) == Tail(lth[p].todo)
LkBusy(p) == lth[p].todo # << >>

LkOthers == <<kin, kout, bin, bout, oin, oout, mbin, mbout, conVars, auditLog, ctxDone, tokVars, clOut, lockCbFails, life>>

\* what no step of a call changes
LkFrame ==
    /\ UNCHANGED <<sessCfg, hasLockCb, hasUnlockCb, monitor>>
    /\ UNCHANGED <<LkOthers, polVars, envVars, thrVars, statVars, srvVars>>

LkData == <<sessState, lastActivity, lockedAt, cache, lockCalls>>

\* a goroutine serving requests calls a method
LkCall(p) ==
    /\ p \in Threads /\ ~LkBusy(p) /\ lth[p].n < MaxLkOps
    /\ \E op \in LkOps :
          lth' = [lth EXCEPT ![p] = [NoLkCall EXCEPT !.op = op, !.todo = LkProgram(op),
                                                     !.n = lth[p].n + 1]]
    /\ UNCHANGED <<mus, LkData>>
    /\ LkFrame

\* Manager.monitor: the ticker fires and the idle loop calls checkIdleTimeout
LkTicker ==
    /\ monitor = "running" /\ ~LkBusy(MonitorProc)
    /\ lth' = [lth EXCEPT ![MonitorProc] =
                  [NoLkCall EXCEPT !.op = "checkIdleTimeout",
                                   !.todo = LkProgram("checkIdleTimeout")]]
    /\ UNCHANGED <<mus, LkData>>
    /\ LkFrame

\* sync.RWMutex Lock and RLock: the writer announces itself, then waits for
\* the readers and the writer inside to leave; a reader waits while a writer
\* is inside or waiting
LkAcquire(p) ==
    /\ LkBusy(p) /\ LkHead(p)[1] \in {"Lock", "RLock"}
    /\ LET m == LkHead(p)[2]
       IN  IF LkHead(p)[1] = "Lock"
             THEN IF p \notin mus[m].q
                    THEN /\ mus' = [mus EXCEPT ![m].q = @ \cup {p}]
                         /\ UNCHANGED lth
                    ELSE /\ mus[m].w = 0 /\ mus[m].r = {}
                         /\ mus' = [mus EXCEPT ![m].w = p, ![m].q = @ \ {p}]
                         /\ lth' = [lth EXCEPT ![p].todo = LkRest(p)]
             ELSE /\ mus[m].w = 0 /\ mus[m].q = {}
                  /\ mus' = [mus EXCEPT ![m].r = @ \cup {p}]
                  /\ lth' = [lth EXCEPT ![p].todo = LkRest(p)]
    /\ UNCHANGED LkData
    /\ LkFrame

\* sync.RWMutex Unlock and RUnlock
LkRelease(p) ==
    /\ LkBusy(p) /\ LkHead(p)[1] \in {"Unlock", "RUnlock"}
    /\ LET m == LkHead(p)[2]
       IN  mus' = IF LkHead(p)[1] = "Unlock"
                    THEN [mus EXCEPT ![m].w = 0]
                    ELSE [mus EXCEPT ![m].r = @ \ {p}]
    /\ lth' = [lth EXCEPT ![p].todo = LkRest(p)]
    /\ UNCHANGED LkData
    /\ LkFrame

\* the call goes on with the steps pre and then with what was left
LkGo(p, pre) == lth' = [lth EXCEPT ![p].todo = pre \o LkRest(p)]

LkGoRes(p, pre, res) == lth' = [lth EXCEPT ![p].todo = pre \o LkRest(p), ![p].res = res]

\* the critical sections of the Manager (UpdateActivity, GetInfo,
\* MarkLocked, checkIdleTimeout, MarkAuthenticated, determineInitialState)
LkSession(p) ==
    /\ LkBusy(p) /\ LkHead(p)[1] = "do"
    /\ LkHead(p)[2] \in {"UpdateActivity", "GetInfo", "MarkLocked", "checkIdleTimeout",
                         "MarkAuthenticated", "SetLocked", "Snapshot"}
    /\ LET x == LkHead(p)[2]
       IN  \/ /\ x = "UpdateActivity"
              /\ UpdateActivity
              /\ LkGo(p, << >>)
           \/ /\ x = "GetInfo"
              /\ UNCHANGED <<sessState, lastActivity, lockedAt>>
              /\ LkGo(p, << >>)
           \/ /\ x = "Snapshot"
              /\ UNCHANGED <<sessState, lastActivity, lockedAt>>
              /\ lth' = [lth EXCEPT ![p].todo = LkRest(p), ![p].snap = sessState]
           \/ /\ x = "MarkLocked"
              /\ IF sessState # SessionLocked
                   THEN /\ sessState' = SessionLocked
                        /\ lockedAt' = now
                        /\ LkGo(p, IF hasLockCb THEN LockCallback ELSE << >>)
                   ELSE /\ UNCHANGED <<sessState, lockedAt>>
                        /\ LkGo(p, << >>)
              /\ UNCHANGED lastActivity
           \/ /\ x = "checkIdleTimeout"
              /\ IF sessState = SessionAuthenticated /\ IdleExceeded
                   THEN /\ sessState' = SessionLocked
                        /\ lockedAt' = now
                        /\ LkGo(p, IF hasLockCb THEN LockCallback ELSE << >>)
                   ELSE /\ UNCHANGED <<sessState, lockedAt>>
                        /\ LkGo(p, << >>)
              /\ UNCHANGED lastActivity
           \/ /\ x = "MarkAuthenticated"
              /\ MarkAuthenticated
              /\ LkGoRes(p, << >>, "ok")
           \/ /\ x = "SetLocked"
              /\ sessState' = SessionLocked
              /\ lockedAt' = now
              /\ UNCHANGED lastActivity
              /\ LkGoRes(p, << >>, "err")
    /\ UNCHANGED <<mus, cache, lockCalls>>
    /\ LkFrame

\* the critical sections of the Cache: Get, Set and the Clear of the lock
\* callback
LkCache(p) ==
    /\ LkBusy(p) /\ LkHead(p)[1] = "do"
    /\ LkHead(p)[2] \in {"Get", "Set", "Clear"}
    /\ LET x == LkHead(p)[2]
       IN  \/ /\ x = "Get"
              /\ lth' = [lth EXCEPT ![p].todo = LkRest(p),
                                    ![p].hit = CacheGet(cache, LkKey, now).ok]
              /\ UNCHANGED <<cache, lockCalls>>
           \/ /\ x = "Set"
              /\ cache' = CacheSet(cache, LkKey, LkVal, now)
              /\ LkGo(p, << >>)
              /\ UNCHANGED lockCalls
           \/ /\ x = "Clear"
              /\ cache' = CacheClear(cache)
              /\ lockCalls' = lockCalls + 1
              /\ LkGo(p, << >>)
    /\ UNCHANGED <<mus, sessState, lastActivity, lockedAt>>
    /\ LkFrame

\* the code outside every critical section: the dispatch of ValidateSession
\* on its snapshot, the unlock callback, and the miss path of a read
LkOutside(p) ==
    /\ LkBusy(p) /\ LkHead(p)[1] = "do"
    /\ LkHead(p)[2] \in {"Dispatch", "Unlock", "Classify", "AfterGet", "AfterValidate",
                         "Backend"}
    /\ LET x == LkHead(p)[2]
       IN  \/ /\ x = "Dispatch"
              /\ IF IsActive(lth[p].snap) THEN LkGoRes(p, << >>, "ok")
                 ELSE IF RequiresUnlock(lth[p].snap)
                   THEN IF hasUnlockCb THEN LkGo(p, LkProgram("attemptUnlock"))
                                       ELSE LkGoRes(p, << >>, "err")
                 ELSE IF lth[p].snap = SessionUnknown
                   THEN IF hasUnlockCb THEN LkGo(p, << <<"do", "Classify">> >>)
                                       ELSE LkGo(p, LkProgram("assumeLocked"))
                 ELSE LkGoRes(p, << >>, "err")
           \/ /\ x = "Unlock"
              /\ IF cliOK THEN LkGo(p, LkProgram("MarkAuthenticated"))
                          ELSE LkGoRes(p, << >>, "err")
           \/ /\ x = "Classify"
              /\ IF cliOK THEN LkGo(p, LkProgram("MarkAuthenticated"))
                          ELSE LkGo(p, LkProgram("assumeLocked"))
           \/ /\ x = "AfterGet"
              /\ IF lth[p].hit THEN LkGo(p, << >>)
                 ELSE LkGo(p, LkProgram("ValidateSession") \o << <<"do", "AfterValidate">> >>)
           \/ /\ x = "AfterValidate"
              /\ IF lth[p].res = "ok" THEN LkGo(p, << <<"do", "Backend">> >>)
                                      ELSE LkGo(p, << >>)
           \/ /\ x = "Backend"
              /\ \E ok \in BOOLEAN :
                    IF ok THEN LkGo(p, LkProgram("UpdateActivity") \o LkProgram("Set"))
                          ELSE LkGo(p, << >>)
    /\ UNCHANGED <<mus, LkData>>
    /\ LkFrame

\* a goroutine inside a call takes its next step
LkRun(p) == LkAcquire(p) \/ LkRelease(p) \/ LkSession(p) \/ LkCache(p) \/ LkOutside(p)

\* the daemon after Server.Serve: callbacks installed, idle loop running;
\* the upstream session is signed in or not, and stays so
SpecLocksInit ==
    /\ PureIdle
    /\ now = 1
    /\ cliOK \in BOOLEAN
    /\ sessCfg = [EnableSessionLock |-> TRUE, SessionIdleTimeout |-> MaxIdleTimeout,
                  LockOnAuthFailure |-> TRUE]
    /\ hasLockCb = TRUE
    /\ hasUnlockCb = TRUE
    /\ sessState = SessionUnknown
    /\ lastActivity = now
    /\ lockedAt = 0
    /\ monitor = "running"
    /\ lockCalls = 0
    /\ ThreadInit("client")
    /\ cache = << >>
    /\ ServerIdle

SpecLocksNext ==
    \/ Tick
    \/ LkTicker
    \/ \E p \in Threads : LkCall(p)
    \/ \E p \in LkProcs : LkAcquire(p)
    \/ \E p \in LkProcs : LkRelease(p)
    \/ \E p \in LkProcs : LkSession(p)
    \/ \E p \in LkProcs : LkCache(p)
    \/ \E p \in LkProcs : LkOutside(p)

SpecLocks == SpecLocksInit /\ [][SpecLocksNext]_vars

\* the Go scheduler runs every goroutine that can run, and a goroutine that
\* waits for a mutex gets it once it has been free often enough
SpecLocksFair ==
    /\ SpecLocksInit
    /\ [][SpecLocksNext]_vars
    /\ \A p \in LkProcs : SF_vars(LkRun(p))

(***************************************************************************)
(* SpecToken: util.EnsureToken (internal/util/fs.go) called by processes   *)
(* that start at the same time on one token path.  Each system call is a   *)
(* step; the file system is the map tfs.                                   *)
(***************************************************************************)
MaxTokCalls == 2

\* the outcomes of rand.Read, hex encoded
NewTokens == {"ta", "tb"}

\* the content of a token file written by an earlier run
OldToken == "t0"

TokOthers == <<kin, kout, bin, bout, oin, oout, mbin, mbout, conVars, auditLog, ctxDone, lkVars, clOut, lockCbFails, life>>

TokFrame ==
    /\ UNCHANGED TokOthers
    /\ UNCHANGED <<polVars, envVars, sessVars, thrVars, cacheVars, statVars, srvVars>>

\* EnsureToken returns (tok, nil)
TokReturn(t, tok) ==
    /\ tth' = [tth EXCEPT ![t].pc = "idle", ![t].ret = tok, ![t].err = FALSE]
    /\ trets' = trets \cup {tok}

\* EnsureToken returns ("", err)
TokFail(t) ==
    /\ tth' = [tth EXCEPT ![t].pc = "idle", ![t].ret = NoVal, ![t].err = TRUE]
    /\ UNCHANGED trets

\* lines 126-131: os.ReadFile(path); an existing file is returned as it is
EnsureTokenRead(t) ==
    /\ tth[t].pc = "idle" /\ tth[t].n < MaxTokCalls
    /\ IF tfs["token"] # NoFile
         THEN /\ tth' = [tth EXCEPT ![t].ret = tfs["token"], ![t].err = FALSE,
                                      ![t].n = @ + 1]
              /\ trets' = trets \cup {tfs["token"]}
         ELSE /\ tth' = [tth EXCEPT ![t].pc = "create", ![t].n = @ + 1]
              /\ UNCHANGED trets
    /\ UNCHANGED tfs
    /\ TokFrame

\* lines 133-146: a token is drawn, the temp file created with O_EXCL
EnsureTokenCreate(t) ==
    /\ tth[t].pc = "create"
    /\ \E tok \in NewTokens :
          IF tfs["token.tmp"] # NoFile
            THEN TokFail(t) /\ UNCHANGED tfs
            ELSE /\ tfs' = [tfs EXCEPT !["token.tmp"] = ""]
                 /\ tth' = [tth EXCEPT ![t].pc = "write", ![t].tok = tok]
                 /\ UNCHANGED trets
    /\ TokFrame

\* lines 148-159: the token is written to the temp file and the file closed
EnsureTokenWrite(t) ==
    /\ tth[t].pc = "write"
    /\ tfs' = [tfs EXCEPT !["token.tmp"] = tth[t].tok]
    /\ tth' = [tth EXCEPT ![t].pc = "rename"]
    /\ UNCHANGED trets
    /\ TokFrame

\* lines 161-174: os.Rename(tempPath, path) replaces whatever is at path;
\* when it fails the temp file is removed and the file at path read
EnsureTokenRename(t) ==
    /\ tth[t].pc = "rename"
    /\ IF tfs["token.tmp"] # NoFile
         THEN /\ tfs' = [tfs EXCEPT !["token"] = tfs["token.tmp"], !["token.tmp"] = NoFile]
              /\ TokReturn(t, tth[t].tok)
         ELSE /\ UNCHANGED tfs
              /\ IF tfs["token"] # NoFile THEN TokReturn(t, tfs["token"]) ELSE TokFail(t)
    /\ TokFrame

\* the token path before the first call: no file, or the file of an earlier run
SpecTokenInit ==
    /\ kin = NoVal /\ kout = <<>> /\ pin = NoVal /\ pout = <<>>
    /\ BatchIdle /\ OpcliIdle /\ MultiIdle /\ ConIdle /\ auditLog = << >>
    /\ CtxIdle /\ LkIdle /\ clOut = << >> /\ lockCbFails = FALSE /\ LifeInit
    /\ tfs \in { [f \in {"token", "token.tmp"} |-> IF f = "token" THEN c ELSE NoFile] :
                    c \in {NoFile, OldToken} }
    /\ tth = [t \in Threads |-> NoTokCall]
    /\ trets = {}
    /\ SysIdle

SpecTokenNext ==
    \/ \E t \in Threads : EnsureTokenRead(t)
    \/ \E t \in Threads : EnsureTokenCreate(t)
    \/ \E t \in Threads : EnsureTokenWrite(t)
    \/ \E t \in Threads : EnsureTokenRename(t)

SpecToken == SpecTokenInit /\ [][SpecTokenNext]_vars

(***************************************************************************)
(* SpecCleanup: Cache.CleanupExpired, as called by the ticker of           *)
(* Server.startCacheCleanup, on bounded caches.  Every entry was stored by *)
(* Cache.Set at some instant not after now.                                *)
(***************************************************************************)
CleanupKeys == {"k1", "k2"}
CleanupVals == { <<"s">>, <<"t">> }

\* the entry Cache.Set stored at instant t
StoredEntry(val, t) == [v |-> val, exp |-> t + TTL, cached |-> t]

\* the caches over a set of keys whose entries were stored up to instant t
CachesAt(keys, t) ==
    [keys -> { StoredEntry(val, u) : val \in CleanupVals, u \in 1..t }]

CleanupInit ==
    /\ now \in Times
    /\ \E keys \in SUBSET CleanupKeys : cache \in CachesAt(keys, now)
    /\ hits \in 0..1 /\ misses \in 0..1 /\ inflight \in 0..1
    /\ clOut = << >>

\* one sweep of the cleanup loop
CleanupCall ==
    /\ clOut = << >>
    /\ cache' = CleanupExpired(cache, now).data
    /\ clOut' = << CleanupExpired(cache, now).removed >>
    /\ UNCHANGED <<kin, kout, bin, bout, oin, oout, mbin, mbout, conVars, auditLog,
                   ctxDone, lkVars, tokVars, lockCbFails, life>>
    /\ UNCHANGED <<polVars, envVars, sessVars, thrVars, statVars, srvVars>>

SpecCleanupInit ==
    /\ kin = NoVal /\ kout = <<>> /\ pin = NoVal /\ pout = <<>>
    /\ BatchIdle /\ OpcliIdle /\ MultiIdle /\ ConIdle /\ auditLog = << >>
    /\ CtxIdle /\ LkIdle /\ TokIdle /\ lockCbFails = FALSE /\ LifeInit
    /\ CleanupInit
    /\ cliOK = TRUE
    /\ sessCfg = [EnableSessionLock |-> FALSE, SessionIdleTimeout |-> 0,
                  LockOnAuthFailure |-> FALSE]
    /\ hasLockCb = FALSE /\ hasUnlockCb = FALSE
    /\ ManagerInit
    /\ ThreadInit("client")
    /\ srvPolicy = PolicyAllowAll
    /\ sfm = {} /\ secretVer = 1 /\ beBy = {}
    /\ req = [t \in Threads |-> NoReq]
    /\ resp = [t \in Threads |-> NoResp]
    /\ tres = [t \in Threads |-> NoRes]
    /\ joined = [t \in Threads |-> 0]
    /\ early = [t \in Threads |-> FALSE]
    /\ arrState = [t \in Threads |-> NoVal]

SpecCleanupNext == CleanupCall

SpecCleanup == SpecCleanupInit /\ [][SpecCleanupNext]_vars

(***************************************************************************)
(* SpecLife: start and shutdown.  Serve launches the cache cleanup loop    *)
(* and calls Manager.Start; the root context may be cancelled and          *)
(* Manager.Stop called (Serve defers it) at any moment after Start.        *)
(* Callers change the session meanwhile and reads store cache entries.     *)
(***************************************************************************)
LifeFrame ==
    /\ UNCHANGED lifeOthers
    /\ UNCHANGED <<polVars, envVars, thrVars, statVars, srvVars>>

\* the daemon's root context is cancelled (signal.NotifyContext)
CancelRoot ==
    /\ life.ctx = "live"
    /\ life' = [life EXCEPT !.ctx = "done"]
    /\ UNCHANGED <<sessVars, cacheVars>>
    /\ LifeFrame

\* mutant: the idle loop only listens to the root context
MonitorExitOnCtxOnly ==
    /\ monitor = "running"
    /\ life.ctx = "done"
    /\ monitor' = "stopped"
    /\ life' = [life EXCEPT !.doneCh = "closed"]
    /\ UNCHANGED <<sessCfg, sessState, lastActivity, lockedAt, hasLockCb, hasUnlockCb, lockCalls>>
    /\ UNCHANGED cacheVars
    /\ LifeFrame

\* Manager.monitor: the select takes ctx.Done() or stopCh and the loop
\* returns; the deferred close(doneCh)
MonitorExit ==
    /\ monitor = "running"
    /\ life.ctx = "done" \/ life.stopCh = "closed"
    /\ monitor' = "stopped"
    /\ life' = [life EXCEPT !.doneCh = "closed"]
    /\ UNCHANGED <<sessCfg, sessState, lastActivity, lockedAt, hasLockCb, hasUnlockCb, lockCalls>>
    /\ UNCHANGED cacheVars
    /\ LifeFrame

\* Manager.Stop line 74: close(stopCh); Stop is called after Start
StopClose ==
    /\ monitor # "new" /\ life.stop = "none"
    /\ life' = [life EXCEPT !.stopCh = "closed", !.stop = "waiting"]
    /\ UNCHANGED <<sessVars, cacheVars>>
    /\ LifeFrame

\* Manager.Stop line 75: <-doneCh, then Stop returns
StopReturn ==
    /\ life.stop = "waiting" /\ life.doneCh = "closed"
    /\ life' = [life EXCEPT !.stop = "returned"]
    /\ UNCHANGED <<sessVars, cacheVars>>
    /\ LifeFrame

\* Server.startCacheCleanup: the ticker fires and the loop sweeps the cache
CleanupSweep ==
    /\ life.cleaner = "running"
    /\ cache' = CleanupExpired(cache, now).data
    /\ UNCHANGED <<life, sessVars>>
    /\ LifeFrame

\* Server.startCacheCleanup: the select takes ctx.Done() and the loop returns
CleanerExit ==
    /\ life.cleaner = "running" /\ life.ctx = "done"
    /\ life' = [life EXCEPT !.cleaner = "stopped"]
    /\ UNCHANGED <<sessVars, cacheVars>>
    /\ LifeFrame

\* a read stores a value (Cache.Set)
LifeStore ==
    /\ LkKey \notin DOMAIN cache
    /\ cache' = CacheSet(cache, LkKey, LkVal, now)
    /\ UNCHANGED <<life, sessVars>>
    /\ LifeFrame

SpecLifeInit ==
    /\ PureIdle
    /\ now = 1
    /\ cliOK = TRUE
    /\ sessCfg \in [EnableSessionLock : BOOLEAN, SessionIdleTimeout : {MaxIdleTimeout},
                   LockOnAuthFailure : {TRUE}]
    /\ hasLockCb = TRUE
    /\ hasUnlockCb = TRUE
    /\ ManagerInit
    /\ ThreadInit("client")
    /\ cache = << >>
    /\ ServerIdle

SpecLifeNext ==
    \/ Tick
    \/ Start
    \/ checkIdleTimeout
    \/ CancelRoot
    \/ MonitorExit
    \/ StopClose
    \/ StopReturn
    \/ CleanupSweep
    \/ CleanerExit
    \/ LifeStore
    \/ \E t \in Threads : ClientMarkAuthenticated(t)
    \/ \E t \in Threads : ClientMarkLocked(t)

SpecLife == SpecLifeInit /\ [][SpecLifeNext]_vars

\* the scheduler runs the two loops and the goroutine that called Stop
SpecLifeFair ==
    /\ SpecLifeInit
    /\ [][SpecLifeNext]_vars
    /\ WF_vars(MonitorExit)
    /\ WF_vars(CleanerExit)
    /\ WF_vars(StopReturn)

(***************************************************************************)
(* SpecMulti: MultiBackend (internal/backend/multi.go) on bounded inputs   *)
(***************************************************************************)
VaultPrefix == <<"v", "a", "u", "l", "t", ":", "/", "/">>
BaoPrefix == <<"b", "a", "o", ":", "/", "/">>

\* the three backends given to NewMultiBackend, and no backend (nil)
OpBackend == "opBackend"
VaultBackend == "vaultBackend"
BaoBackend == "baoBackend"
NilBackend == "nil"

MultiRefs ==
    { OpPrefix \o <<"x">>, VaultPrefix \o <<"x">>, BaoPrefix \o <<"x">>,
      OpPrefix, VaultPrefix, BaoPrefix,
      <<"x">>, <<>>, <<"o", "p", ":", "/">>, <<"O", "P", ":", "/", "/", "x">>,
      <<"x">> \o VaultPrefix, <<"b", "a", "o", ":", "x">> }

DefaultSchemes == {"op", "vault", "bao", "", "ssm"}

\* mutant: the vault and bao cases are exchanged
getBackendForRefSwapped(ref, defaultScheme) ==
    IF HasPrefix(ref, OpPrefix) THEN OpBackend
    ELSE IF HasPrefix(ref, VaultPrefix) THEN BaoBackend
    ELSE IF HasPrefix(ref, BaoPrefix) THEN VaultBackend
    ELSE IF defaultScheme = "op" THEN OpBackend
    ELSE IF defaultScheme = "vault" THEN VaultBackend
    ELSE IF defaultScheme = "bao" THEN BaoBackend
    ELSE NilBackend

\* MultiBackend.getBackendForRef
getBackendForRef(ref, defaultScheme) ==
    IF HasPrefix(ref, OpPrefix) THEN OpBackend
    ELSE IF HasPrefix(ref, VaultPrefix) THEN VaultBackend
    ELSE IF HasPrefix(ref, BaoPrefix) THEN BaoBackend
    ELSE IF defaultScheme = "op" THEN OpBackend
    ELSE IF defaultScheme = "vault" THEN VaultBackend
    ELSE IF defaultScheme = "bao" THEN BaoBackend
    ELSE NilBackend

MultiInit ==
    /\ mbin \in [ref : MultiRefs, defaultScheme : DefaultSchemes]
    /\ mbout = <<>>

\* MultiBackend.ReadRefWithFlags: the chosen backend is called with the
\* reference, and answers with a value or an error; without a backend the
\* call fails
MultiRead ==
    /\ mbout = <<>>
    /\ LET b == getBackendForRef(mbin.ref, mbin.defaultScheme)
       IN  IF b = NilBackend
             THEN mbout' = << [called |-> NilBackend, ref |-> <<>>,
                               err |-> "no backend available for reference"] >>
             ELSE \E ok \in BOOLEAN :
                    mbout' = << [called |-> b, ref |-> mbin.ref,
                                 err |-> IF ok THEN "" ELSE "backend read failed"] >>
    /\ UNCHANGED <<kin, kout, bin, bout, oin, oout, mbin, conVars, auditLog, moreVars>>
    /\ UNCHANGED <<polVars, envVars, sessVars, thrVars, cacheVars, statVars, srvVars>>

SpecMultiInit ==
    /\ MultiInit
    /\ kin = NoVal /\ kout = <<>> /\ pin = NoVal /\ pout = <<>>
    /\ BatchIdle /\ OpcliIdle /\ ConIdle /\ auditLog = << >> /\ MoreIdle
    /\ SysIdle

SpecMultiNext == MultiRead

SpecMulti == SpecMultiInit /\ [][SpecMultiNext]_vars

(***************************************************************************)
(* Audit log (internal/audit/audit.go). The Logger is created in main and   *)
(* its methods are below; no handler of the server and no method of the    *)
(* session Manager calls them, so every action leaves auditLog unchanged.  *)
(***************************************************************************)
\* Logger.enabled, as set by -enable-audit-log
AuditEnabled == TRUE

\* Logger.LogEvent: a disabled logger writes nothing
LogEvent(log, event) == IF ~AuditEnabled THEN log ELSE Append(log, event)

\* Logger.LogAccessDecision
LogAccessDecision(log, peer, ref, allowed) ==
    LogEvent(log, [Event |-> "ACCESS_DECISION", Peer |-> peer, Reference |-> ref,
                   Decision |-> IF allowed THEN "ALLOW" ELSE "DENY"])

\* Logger.LogSessionEvent
LogSessionEvent(log, eventType, peer, decision) ==
    LogEvent(log, [Event |-> eventType, Peer |-> peer, Reference |-> <<>>,
                   Decision |-> decision])

\* Logger.LogAuthenticationEvent
LogAuthenticationEvent(log, peer, success) ==
    LogEvent(log, [Event |-> "AUTHENTICATION", Peer |-> peer, Reference |-> <<>>,
                   Decision |-> IF success THEN "SUCCESS" ELSE "FAILURE"])

(***************************************************************************)
(* SpecCache: the methods of Cache (internal/cache/cache.go) called by     *)
(* concurrent threads. Cache.mu is a sync.RWMutex: a critical section under *)
(* the read lock is one step, the writers' loops run step by step while    *)
(* they hold the write lock. entry.v points to a SafeString on the heap.    *)
(***************************************************************************)
MaxCacheOps == 2
MaxObjs == 2

ConKeys == {"k1", "k2"}
ConVals == { <<"s", "1">>, <<"t", "2">> }

\* the byte SafeString.Zero writes
Nul == "NUL"

\* a nil byte slice; string(nil) is the empty string
NilData == << >>

\* SafeString.String, lines 337-342
SafeStringString(h, id) == IF h[id] = NilData THEN << >> ELSE h[id]

ConCanStart(t) == cth[t].pc = "idle" /\ cth[t].n < MaxCacheOps

ConOthers == <<polVars, sessVars, thrVars, cacheVars, srvVars>>

ConKeyOthers == <<kin, kout, bin, bout, oin, oout, mbin, mbout, auditLog, moreVars>>

\* Cache.Get lines 34-36: the entry is copied under the read lock
GetLoad(t) ==
    /\ ConCanStart(t)
    /\ cmu = 0
    /\ \E k \in ConKeys :
          cth' = [cth EXCEPT ![t] =
                    [NoCall EXCEPT !.pc = "get_check", !.op = "get", !.key = k,
                                   !.ok = k \in DOMAIN cdata,
                                   !.e = IF k \in DOMAIN cdata THEN cdata[k] ELSE NoCall.e,
                                   !.n = cth[t].n + 1]]
    /\ cret' = [cret EXCEPT ![t] = <<>>]
    /\ UNCHANGED <<cdata, heap, cmu, cstored>>
    /\ UNCHANGED <<ConKeyOthers, ConOthers, envVars, statVars>>

\* Cache.Get lines 37-42: a missing or expired entry is a miss
GetCheck(t) ==
    /\ cth[t].pc = "get_check"
    /\ IF ~cth[t].ok \/ ~CacheLive(cth[t].e, now)
         THEN /\ cret' = [cret EXCEPT ![t] =
                            << [key |-> cth[t].key, v |-> <<>>, ok |-> FALSE,
                                exp |-> 0, cached |-> 0] >>]
              /\ cth' = [cth EXCEPT ![t] = [NoCall EXCEPT !.n = cth[t].n]]
         ELSE /\ cth' = [cth EXCEPT ![t].pc = "get_string"]
              /\ UNCHANGED cret
    /\ UNCHANGED <<cdata, heap, cmu, cstored>>
    /\ UNCHANGED <<ConKeyOthers, ConOthers, envVars, statVars>>

\* Cache.Get line 43: e.v.String() is read after the read lock was released,
\* whatever a writer has done to the SafeString by then
GetString(t) ==
    /\ cth[t].pc = "get_string"
    /\ cret' = [cret EXCEPT ![t] =
                  << [key |-> cth[t].key, v |-> SafeStringString(heap, cth[t].e.v),
                      ok |-> TRUE, exp |-> cth[t].e.exp, cached |-> cth[t].e.cached] >>]
    /\ cth' = [cth EXCEPT ![t] = [NoCall EXCEPT !.n = cth[t].n]]
    /\ UNCHANGED <<cdata, heap, cmu, cstored>>
    /\ UNCHANGED <<ConKeyOthers, ConOthers, envVars, statVars>>

\* the entries a writer zeroes: Set the existing entry of its key (line 51),
\* CleanupExpired the expired ones (line 106), Clear all of them (line 122)
WriterTargets(op, k) ==
    IF op = "set" THEN {k} \cap DOMAIN cdata
    ELSE IF op = "cleanup" THEN { j \in DOMAIN cdata : now > cdata[j].exp }
    ELSE DOMAIN cdata

\* Cache.Set line 47, CleanupExpired line 100, Clear line 118: the write lock
\* is taken
WriterLock(t) ==
    /\ ConCanStart(t)
    /\ cmu = 0
    /\ \E op \in {"set", "cleanup", "clear"}, k \in ConKeys, val \in ConVals :
          /\ op # "set" => (k = "k1" /\ val = <<"s", "1">>)
          /\ op = "set" => Cardinality(DOMAIN heap) < MaxObjs
          /\ cth' = [cth EXCEPT ![t] =
                       [NoCall EXCEPT !.pc = "w_loop", !.op = op,
                                      !.key = IF op = "set" THEN k ELSE NoVal,
                                      !.val = IF op = "set" THEN val ELSE <<>>,
                                      !.todo = WriterTargets(op, k),
                                      !.n = cth[t].n + 1]]
    /\ cmu' = t
    /\ UNCHANGED <<cdata, heap, cret, cstored>>
    /\ UNCHANGED <<ConKeyOthers, ConOthers, envVars, statVars>>

\* the writer turns to the next entry to zero (the range loops of lines
\* 105 and 122 visit the map in any order), or finishes: Set stores a new
\* SafeString (line 55); the deferred Unlock
WriterNext(t) ==
    /\ cth[t].pc = "w_loop"
    /\ IF cth[t].todo # {}
         THEN /\ \E k \in cth[t].todo :
                    cth' = [cth EXCEPT ![t].pc = "w_zero", ![t].zobj = cdata[k].v,
                                       ![t].zi = 1, ![t].e = cdata[k],
                                       ![t].todo = cth[t].todo \ {k}]
              /\ UNCHANGED <<cdata, heap, cmu, cstored>>
         ELSE /\ IF cth[t].op = "set"
                   THEN LET id == Cardinality(DOMAIN heap) + 1
                        IN  /\ heap' = [i \in (DOMAIN heap) \cup {id} |->
                                          IF i = id THEN cth[t].val ELSE heap[i]]
                            /\ cdata' = [k \in (DOMAIN cdata) \cup {cth[t].key} |->
                                           IF k = cth[t].key
                                             THEN [v |-> id, exp |-> now + TTL, cached |-> now]
                                             ELSE cdata[k]]
                            /\ cstored' = cstored \cup {<<cth[t].key, cth[t].val>>}
                   ELSE UNCHANGED <<cdata, heap, cstored>>
              /\ cmu' = 0
              /\ cth' = [cth EXCEPT ![t] = [NoCall EXCEPT !.n = cth[t].n]]
    /\ UNCHANGED cret
    /\ UNCHANGED <<ConKeyOthers, ConOthers, envVars, statVars>>

\* the keys whose entry points to SafeString id
KeysOf(id) == { k \in DOMAIN cdata : cdata[k].v = id }

\* SafeString.Zero, lines 395-418, one byte per step (the second loop writes
\* the same zeros again), then data = nil; CleanupExpired and Clear delete
\* the key after it (lines 109, 125)
WriterZero(t) ==
    /\ cth[t].pc = "w_zero"
    /\ LET id == cth[t].zobj
       IN  IF heap[id] # NilData /\ cth[t].zi <= Len(heap[id])
             THEN /\ heap' = [heap EXCEPT ![id][cth[t].zi] = Nul]
                  /\ cth' = [cth EXCEPT ![t].zi = @ + 1]
                  /\ UNCHANGED cdata
             ELSE /\ heap' = [heap EXCEPT ![id] = NilData]
                  /\ cdata' = IF cth[t].op = "set" THEN cdata
                              ELSE [k \in (DOMAIN cdata) \ KeysOf(id) |-> cdata[k]]
                  /\ cth' = [cth EXCEPT ![t].pc = "w_loop"]
    /\ UNCHANGED <<cmu, cret, cstored>>
    /\ UNCHANGED <<ConKeyOthers, ConOthers, envVars, statVars>>

\* Cache.IncHit, IncMiss, IncInFlight, DecInFlight (lines 64-73), each under
\* the write lock
StatCall(t) ==
    /\ ConCanStart(t)
    /\ cmu = 0
    /\ \E op \in {"IncHit", "IncMiss", "IncInFlight", "DecInFlight"} :
          /\ hits' = IF op = "IncHit" THEN hits + 1 ELSE hits
          /\ misses' = IF op = "IncMiss" THEN misses + 1 ELSE misses
          /\ inflight' = IF op = "IncInFlight" THEN inflight + 1
                         ELSE IF op = "DecInFlight" THEN DecInFlight(inflight)
                         ELSE inflight
          /\ cth' = [cth EXCEPT ![t].n = @ + 1, ![t].op = op]
    /\ UNCHANGED <<cdata, heap, cmu, cret, cstored>>
    /\ UNCHANGED <<ConKeyOthers, ConOthers, envVars>>

SpecCacheInit ==
    /\ kin = NoVal /\ kout = <<>> /\ pin = NoVal /\ pout = <<>>
    /\ BatchIdle /\ OpcliIdle /\ ExtIdle
    /\ SysIdle

SpecCacheNext ==
    \/ Tick
    \/ \E t \in Threads : GetLoad(t)
    \/ \E t \in Threads : GetCheck(t)
    \/ \E t \in Threads : GetString(t)
    \/ \E t \in Threads : WriterLock(t)
    \/ \E t \in Threads : WriterNext(t)
    \/ \E t \in Threads : WriterZero(t)
    \/ \E t \in Threads : StatCall(t)

SpecCache == SpecCacheInit /\ [][SpecCacheNext]_vars

(***************************************************************************)
(* Claims on the fingerprint function                                      *)
(***************************************************************************)
\* C4: the cache / single-flight key is injective on (reference, flags):
\* two requests get the same key iff they have the same reference and the
\* same flags element by element.
C4_KeyInjective ==
    kout # <<>> =>
        ((kout[1] = kout[2]) <=> (kin.r1 = kin.r2 /\ kin.f1 = kin.f2))

(***************************************************************************)
(* Claims on the policy evaluator                                          *)
(***************************************************************************)
\* a pattern matches a reference
PatternMatches(pat, ref) ==
    \/ pat = ref
    \/ pat = Str1("*")
    \/ (Len(pat) > 0 /\ pat[Len(pat)] = "*"
        /\ Len(ref) >= Len(pat) - 1
        /\ \A i \in 1..(Len(pat) - 1) : ref[i] = pat[i])

\* every present selector of the rule matches the subject and one of its
\* patterns matches the reference
RuleMatches(r, subj, ref) ==
    /\ (r.PID # 0 => r.PID = subj.PID)
    /\ (r.Path # <<>> => (subj.Path # <<>> /\ Clean(r.Path) = Clean(subj.Path)))
    /\ (r.PathSHA256 # <<>> => r.PathSHA256 = sha256Hex(subj.Path))
    /\ \E j \in 1..Len(r.Refs) : PatternMatches(r.Refs[j], ref)

\* C6: Allowed returns allow iff (a) the allow list is empty and default_deny
\* is false, or (b) some rule matches subject and reference, or (c) no rule
\* matches and default_deny is false; it denies when no rule matches and
\* default_deny is true.
C6_AllowedDecision ==
    pout # <<>> =>
        LET pol == pin.pol
            someRule == \E i \in 1..Len(pol.Allow) :
                            RuleMatches(pol.Allow[i], pin.subj, pin.ref)
        IN  /\ pout[1] = TRUE <=> \/ (Len(pol.Allow) = 0 /\ ~pol.DefaultDeny)
                               \/ someRule
                               \/ (~someRule /\ ~pol.DefaultDeny)
            /\ (~someRule /\ pol.DefaultDeny) => pout[1] = FALSE

\* C6 witness: a rule with a populated path selector matched under
\* default_deny and the evaluator allowed the request
C6_Witness ==
    /\ pout = <<TRUE>>
    /\ pin.pol.DefaultDeny
    /\ Len(pin.pol.Allow) = 2
    /\ \E i \in 1..Len(pin.pol.Allow) :
          pin.pol.Allow[i].Path # <<>> /\ RuleMatches(pin.pol.Allow[i], pin.subj, pin.ref)

(***************************************************************************)
(* Claims on the session manager                                           *)
(***************************************************************************)
ValidatePcs == {"v_read", "v_cb", "v_apply"}

\* thread t's ValidateSession call returns in this step
ValidateReturns(t) == pc[t] \in ValidatePcs /\ pc'[t] \notin ValidatePcs

\* the state the returning call saw when it took its snapshot
ValidateSnapshot(t) == IF pc[t] = "v_read" THEN sessState ELSE vcur[t]

\* C9: ValidateSession in Authenticated returns success without invoking the
\* unlock callback; in Locked/Expired it invokes the callback and moves to
\* Authenticated iff it succeeds, otherwise returns an error and leaves the
\* state as it is (also with no callback configured); in Unknown a
\* successful callback moves to Authenticated and a failing or missing one
\* moves to Locked and returns an error.
C9_ValidateSession ==
    [][\A t \in Threads :
         ValidateReturns(t) =>
           LET snap == ValidateSnapshot(t)
               cbOK == hasUnlockCb /\ vcb'[t] = "ok"
           IN  /\ snap = SessionAuthenticated =>
                     /\ vres'[t] = "ok"
                     /\ ~vcalled'[t]
                     /\ UNCHANGED <<sessState, lastActivity, lockedAt>>
               /\ RequiresUnlock(snap) =>
                     /\ vcalled'[t] = hasUnlockCb
                     /\ IF cbOK
                          THEN sessState' = SessionAuthenticated /\ vres'[t] = "ok"
                          ELSE vres'[t] = "err" /\ UNCHANGED <<sessState, lastActivity, lockedAt>>
               /\ snap = SessionUnknown =>
                     /\ vcalled'[t] = hasUnlockCb
                     /\ IF cbOK
                          THEN sessState' = SessionAuthenticated /\ vres'[t] = "ok"
                          ELSE sessState' = SessionLocked /\ vres'[t] = "err"
      ]_vars

\* C9 witness: a call that found the session Locked invoked a failing unlock
\* callback, returned an error and the session is still Locked
C9_Witness ==
    \E t \in Threads :
        /\ pc[t] = "idle" /\ vres[t] = "err" /\ vcur[t] = SessionLocked
        /\ vcalled[t] /\ vcb[t] = "err"
        /\ sessState = SessionLocked

\* the idle loop (no caller) takes the session from Authenticated to Locked
IdleLockStep ==
    /\ sessState = SessionAuthenticated /\ sessState' = SessionLocked
    /\ UNCHANGED <<pc, ops>>

\* the lock callback ran in this step: the server's callback cleared the cache
LockCallbackFired == lockCalls' = lockCalls + 1 /\ cache' = << >>

\* C10: with enable_session_lock and idle_timeout > 0, an Authenticated
\* session whose last_activity is not updated any more is eventually Locked
\* by the idle loop (the clock and the loop's ticker being scheduled fairly),
\* and the step that locks it fires the lock callback.
C10_IdleLockEventually ==
    /\ \A t0 \in Times :
        ( /\ monitor = "running"
          /\ sessCfg.SessionIdleTimeout > 0
          /\ sessState = SessionAuthenticated
          /\ lastActivity = t0
          /\ t0 + sessCfg.SessionIdleTimeout < MaxTime )
        ~> ( \/ sessState = SessionLocked
             \/ lastActivity # t0
             \/ monitor # "running" )
    /\ [][IdleLockStep => (lockedAt' = now /\ (hasLockCb => LockCallbackFired))]_vars

\* C10 witness: the idle loop locked the session (no caller asked for a
\* lock: the only operation started was a ValidateSession that succeeded)
\* and fired the lock callback
C10_Witness ==
    /\ sessState = SessionLocked
    /\ monitor = "running"
    /\ lockedAt - lastActivity > sessCfg.SessionIdleTimeout
    /\ hasLockCb /\ lockCalls = 1
    /\ \E t \in Threads :
          /\ ops[t] = 1 /\ vres[t] = "ok" /\ pc[t] = "idle"
          /\ \A u \in Threads \ {t} : ops[u] = 0

(***************************************************************************)
(* Claims on the request engine                                            *)
(***************************************************************************)
\* thread t's request passed the token check, carried a non-blank reference
\* and was not refused by the policy gate: it is a read that uses the cache
Reader(t) ==
    /\ Arrived(t)
    /\ ReqRef(t) # <<>>
    /\ tres[t].err # "access denied by policy"

\* the readers of the same fingerprint as t
SameKey(t) == { u \in Threads : Reader(u) /\ ReqKey(u) = ReqKey(t) }

Served(t) == pc[t] = "done" /\ resp[t].status = 200

\* C1 (as claimed): requests for one fingerprint that all arrive before the
\* first backend call for it completes, with a backend that succeeds, cause
\* exactly one backend invocation and all return the same value.
C1_OneFetchPerFingerprint ==
    \A t \in Threads :
        (Reader(t) /\ \A u \in SameKey(t) : Served(u) /\ early[u]) =>
            /\ Cardinality(SameKey(t) \cap beBy) = 1
            /\ \A u \in SameKey(t) : resp[u].value = resp[t].value

\* C1 (amended): the same, provided that the cache was not cleared by a
\* session lock and the entry stored by the fetch has not expired by the
\* time the last of the requests has completed.
C1_OneFetchWhileEntryLives ==
    \A t \in Threads :
        ( /\ Reader(t)
          /\ \A u \in SameKey(t) : Served(u) /\ early[u]
          /\ lockCalls = 0
          /\ \A u \in SameKey(t) : now <= resp[u].resolvedAt + TTL ) =>
            /\ Cardinality(SameKey(t) \cap beBy) = 1
            /\ \A u \in SameKey(t) : resp[u].value = resp[t].value

\* C1 witness: two requests for one fingerprint were coalesced into a single
\* backend call and both were answered with its result
C1_Witness ==
    \E t, u \in Threads :
        /\ t # u /\ Reader(t) /\ u \in SameKey(t)
        /\ Served(t) /\ Served(u) /\ early[t] /\ early[u]
        /\ t \in beBy /\ u \notin beBy
        /\ ~resp[t].fromCache /\ ~resp[u].fromCache
        /\ resp[u].value = resp[t].value
        /\ lockCalls = 0 /\ now <= resp[t].resolvedAt + TTL

\* C2: whenever the session is Locked the cache holds no entries, under
\* every interleaving of the lock transition with reads in flight.
C2_LockedCacheEmpty ==
    sessState = SessionLocked => DOMAIN cache = {}

\* C3: a request that arrives while the session is Locked/Expired is served
\* a secret (from the cache or from the backend) only after session.validate
\* succeeded for it.
C3_ValidatedBeforeServed ==
    \A t \in Threads :
        (Reader(t) /\ Served(t) /\ RequiresUnlock(arrState[t])) => vres[t] = "ok"

\* thread t performs a Cache.Get in this step, and whether it is a hit
CacheLookup(t) == pc[t] \in {"cache_check", "recheck"} /\ pc'[t] # pc[t]

LookupHit(t) ==
    \/ pc[t] = "cache_check" /\ pc'[t] = "done"
    \/ pc[t] = "recheck" /\ pc'[t] = "sf_done"

\* what the lookup hands to the caller on a hit
LookupValue(t) == IF pc[t] = "cache_check" THEN resp'[t].value ELSE tres'[t].value
LookupFromCache(t) == IF pc[t] = "cache_check" THEN resp'[t].fromCache ELSE tres'[t].fromCache

\* C5 (as claimed): Cache.get at time now is a hit with the stored value iff
\* an entry exists with now < expires_at = cached_at + ttl; at every
\* now >= expires_at it is a miss and the read goes on to a fetch.
C5_HitIffBeforeExpiry ==
    [][\A t \in Threads :
         CacheLookup(t) =>
           LET k == ReqKey(t)
           IN  /\ LookupHit(t) <=> (k \in DOMAIN cache /\ now < cache[k].exp)
               /\ LookupHit(t) => /\ LookupValue(t) = cache[k].v
                                  /\ LookupFromCache(t)
                                  /\ cache[k].exp = cache[k].cached + TTL
               /\ ~LookupHit(t) => pc'[t] \in {"sf_do", "v_read"}
      ]_vars

\* C5 (amended): Cache.get at time now is a hit with the stored value iff an
\* entry exists with now <= expires_at = cached_at + ttl; it is a miss only
\* for now > expires_at.
C5_HitIffNotAfterExpiry ==
    [][\A t \in Threads :
         CacheLookup(t) =>
           LET k == ReqKey(t)
           IN  /\ LookupHit(t) <=> (k \in DOMAIN cache /\ now <= cache[k].exp)
               /\ LookupHit(t) => /\ LookupValue(t) = cache[k].v
                                  /\ LookupFromCache(t)
                                  /\ cache[k].exp = cache[k].cached + TTL
               /\ ~LookupHit(t) => pc'[t] \in {"sf_do", "v_read"}
      ]_vars

\* C5 witness: a request was served from the cache at the very instant the
\* entry expires (expires_in = 0)
C5_Witness ==
    \E t \in Threads :
        /\ Served(t) /\ resp[t].fromCache /\ resp[t].expiresIn = 0
        /\ ReqKey(t) \in DOMAIN cache /\ cache[ReqKey(t)].exp = now

\* every rule of the policy carries a populated path or pid selector
AllRulesSelective(pol) ==
    \A i \in 1..Len(pol.Allow) : pol.Allow[i].Path # <<>> \/ pol.Allow[i].PID # 0

Handled(t) == Arrived(t) /\ ReqRef(t) # <<>>

DeniedByPolicy(t) == tres[t].err = "access denied by policy"

\* C7 (as claimed): a read on a connection without peer identity is
\* evaluated by the policy as the subject {pid 0, empty path}, so under
\* default_deny with only selective rules it is denied.
C7_NoPeerIsDenied ==
    \A t \in Threads :
        ( /\ Handled(t) /\ req[t].peer = NoPeer
          /\ srvPolicy.DefaultDeny /\ AllRulesSelective(srvPolicy) ) =>
            DeniedByPolicy(t)

\* C8: a request reaches its handler iff it presents a non-empty token equal
\* to the stored one; otherwise the response is 401 "unauthorized" and
\* nothing else happens: cache, counters and backend are untouched, and the
\* request is never processed further.
C8_TokenGate ==
    [][\A t \in Threads :
         /\ (kind[t] = "read" /\ pc[t] = "idle" /\ pc'[t] # "idle") =>
               IF req'[t].tok # "" /\ req'[t].tok = Token
                 THEN pc'[t] = "handler" /\ resp'[t] = NoResp
                 ELSE /\ pc'[t] = "done"
                      /\ resp'[t] = Response(401, "unauthorized")
                      /\ UNCHANGED <<cache, hits, misses, inflight, beBy, sfm>>
                      /\ UNCHANGED <<sessState, lastActivity, lockedAt>>
         /\ (pc[t] = "done" /\ resp[t].status = 401) =>
               (pc'[t] = "done" /\ resp'[t] = resp[t] /\ (t \in beBy' <=> t \in beBy))
      ]_vars

\* C8 witness: one request with a wrong token was answered 401 while a
\* request with the right token was served
C8_Witness ==
    \E t, u \in Threads :
        /\ pc[t] = "done" /\ req[t].tok = "bad" /\ resp[t] = Response(401, "unauthorized")
        /\ t \notin beBy
        /\ Served(u) /\ req[u].tok = Token

(***************************************************************************)
(* Claims on the error responses of the read endpoint                      *)
(***************************************************************************)
\* C11: a read denied by the policy is answered 403 with the body "access
\* denied by policy", a status distinct from the 502 of backend failures.
C11_DenyIsForbidden ==
    \A t \in Threads :
        (Handled(t) /\ pc[t] = "done" /\ DeniedByPolicy(t)) =>
            /\ resp[t].status = 403
            /\ resp[t].body = "access denied by policy"

\* the read of thread t ended because session validation failed
SessionRefused(t) == pc[t] = "done" /\ tres[t].err = "session validation failed"

\* C12: a read that fails session validation is answered 401 with a body
\* that differs from the one of a token failure and from the one of a
\* backend failure.
C12_SessionFailureIs401 ==
    \A t \in Threads :
        SessionRefused(t) =>
            /\ resp[t].status = 401
            /\ resp[t].body \notin {"unauthorized", "failed to read secret"}

\* a request is refused by the token check in this step
TokenRefused(t) ==
    /\ kind[t] = "read" /\ pc[t] = "idle" /\ pc'[t] = "done"
    /\ resp'[t].status = 401

\* C13: with lock_on_auth_failure set and session management enabled, a
\* request with a missing or wrong token moves the session to Locked in
\* addition to being answered 401.
C13_AuthFailureLocks ==
    [][\A t \in Threads :
         (TokenRefused(t) /\ sessCfg.EnableSessionLock /\ sessCfg.LockOnAuthFailure) =>
             sessState' = SessionLocked
      ]_vars

(***************************************************************************)
(* Claims on activity stamping                                             *)
(***************************************************************************)
\* thread t's read is answered from the cache by the handler's own lookup
CacheHitServed(t) == pc[t] = "cache_check" /\ pc'[t] = "done"

\* thread t's backend read returns a value / an error in this step
BackendSucceeds(t) == pc[t] = "be_read" /\ pc'[t] = "cache_set"
BackendFails(t) == pc[t] = "be_read" /\ pc'[t] = "sf_done"

\* C14: every successful read, served from the cache or from the backend,
\* calls update_activity, so last_activity of an Authenticated session
\* advances to now also when the read is a cache hit.
C14_ActivityOnEveryRead ==
    [][\A t \in Threads :
         ((CacheHitServed(t) \/ BackendSucceeds(t)) /\ sessState = SessionAuthenticated) =>
             lastActivity' = now
      ]_vars

\* thread t's read has failed and no other request was ever made
FailedAlone(t) ==
    /\ kind[t] = "read" /\ pc[t] = "done" /\ resp[t].status # 200
    /\ \A u \in Threads \ {t} : ops[u] = 0

\* this ValidateSession call of thread t (re)authenticates the session
ValidateAuthenticates(t) == pc[t] = "v_apply" /\ vres'[t] = "ok"

\* C15 (as claimed): a read that fails (session validation, policy deny or
\* backend error) leaves last_activity exactly as it was before the request,
\* whatever the session state it started in.
C15_FailedReadKeepsActivity ==
    \A t \in Threads : FailedAlone(t) => lastActivity = 1

\* C15 (amended): a failing read never calls update_activity: last_activity
\* is changed only by update_activity after a successful backend read and by
\* MarkAuthenticated when a session validation succeeds through the unlock
\* callback; so a failed read leaves last_activity as it was unless its own
\* validation had (re)authenticated the session.
C15_ActivityOnlyOnSuccess ==
    /\ [](\A t \in Threads :
            (FailedAlone(t) /\ ~(vcalled[t] /\ vres[t] = "ok")) => lastActivity = 1)
    /\ [][lastActivity' # lastActivity =>
            \E t \in Threads : BackendSucceeds(t) \/ ValidateAuthenticates(t)]_vars
    /\ [][\A t \in Threads : BackendFails(t) => lastActivity' = lastActivity]_vars

\* C15 witness: a read whose session validation passed without the callback
\* ended in a backend error, and last_activity is older than now
C15_Witness ==
    \E t \in Threads :
        /\ pc[t] = "done" /\ t \in beBy /\ tres[t].err = "backend read failed"
        /\ resp[t].status = 502
        /\ vres[t] = "ok" /\ ~vcalled[t]
        /\ sessState = SessionAuthenticated /\ lastActivity < now

(***************************************************************************)
(* Claims on the unlock endpoint                                           *)
(***************************************************************************)
\* thread t answers an unlock request in this step, after ValidateSession
UnlockResponds(t) == pc[t] = "u_info" /\ pc'[t] = "idle"

\* thread t answers an unlock request with a valid token without a manager
UnlockDisabled(t) ==
    /\ kind[t] = "client" /\ ops'[t] # ops[t] /\ pc'[t] = "idle"
    /\ resp'[t] # resp[t] /\ resp'[t].status # 401

\* C16: POST /v1/session/unlock with the session Locked returns success =
\* true with state "authenticated" when the unlock callback succeeds (so
\* that a following read passes session validation), and 401 with success =
\* false and the state still Locked when it fails; with session management
\* disabled it returns 400 with success = false and state "disabled".
C16_UnlockEndpoint ==
    [][\A t \in Threads :
         /\ UnlockResponds(t) =>
              /\ resp'[t].success = (vres[t] = "ok")
              /\ resp'[t].status = (IF vres[t] = "ok" THEN 200 ELSE 401)
              /\ resp'[t].state = sessState
              /\ (vcur[t] = SessionLocked /\ vcb[t] = "ok") =>
                    /\ resp'[t].success /\ resp'[t].status = 200
                    /\ \/ resp'[t].state = SessionAuthenticated /\ IsActive(sessState')
                       \/ lockedAt # 0
              /\ (vcur[t] = SessionLocked /\ vcb[t] # "ok") =>
                    /\ ~resp'[t].success /\ resp'[t].status = 401
                    /\ \/ resp'[t].state = SessionLocked /\ sessState' = SessionLocked
                       \/ \E u \in Threads \ {t} : ops[u] > 0 /\ lockedAt = 0
         /\ UnlockDisabled(t) =>
              /\ ~sessCfg.EnableSessionLock
              /\ resp'[t] = UnlockResponse(400, FALSE, "disabled")
              /\ UNCHANGED <<sessState, lastActivity, lockedAt>>
         /\ (kind[t] = "client" /\ pc'[t] = "v_read") => sessCfg.EnableSessionLock
      ]_vars

\* C16 witness: an unlock request that found the session Locked ran a
\* successful unlock callback and was answered success with state
\* "authenticated"
C16_Witness ==
    \E t \in Threads :
        /\ pc[t] = "idle" /\ kind[t] = "client"
        /\ vcur[t] = SessionLocked /\ vcalled[t] /\ vcb[t] = "ok"
        /\ resp[t] = UnlockResponse(200, TRUE, SessionAuthenticated)
        /\ sessState = SessionAuthenticated

(***************************************************************************)
(* Claims on the reads and resolve endpoints                               *)
(***************************************************************************)
\* the reference the endpoint passes on for position i: trimmed by reads,
\* as given by resolve
BatchRef(i) ==
    IF bin.endpoint = "reads" THEN TrimSpace(bin.refs[i]) ELSE bin.refs[i]

\* an earlier position of the request has put the reference of position i
\* into the cache
CachedEarlier(i) ==
    \E j \in 1..(i - 1) :
        /\ BatchRef(j) = BatchRef(i)
        /\ bin.outcomes[j] = "ok"
        /\ ~PolicyDenies(bin.peer, BatchRef(j))

\* the read of position i fails: the policy denies it, or the backend (or its
\* session validation) fails and no earlier position has cached the value
BatchFails(i) ==
    \/ PolicyDenies(bin.peer, BatchRef(i))
    \/ bin.outcomes[i] # "ok" /\ ~CachedEarlier(i)

\* the last position of the request with the same reference as position i
LastOf(i) ==
    CHOOSE j \in i..Len(bin.refs) :
        /\ BatchRef(j) = BatchRef(i)
        /\ \A k \in (j + 1)..Len(bin.refs) : BatchRef(k) # BatchRef(i)

ReadsDone == bout # <<>> /\ bin.endpoint = "reads"

\* C17: reads answers 200 with an entry for every non-blank requested
\* reference; the entry of a reference whose read failed (policy deny,
\* session or backend error) carries the "ERROR: ..." marker, and the other
\* references are read all the same and carry their values.
C17_ReadsPartialSuccess ==
    ReadsDone =>
        LET results == bout[1].results
        IN  /\ bout[1].status = 200
            /\ DOMAIN results = { BatchRef(i) : i \in 1..Len(bin.refs) } \ { <<>> }
            /\ \A i \in 1..Len(bin.refs) :
                  BatchRef(i) # <<>> =>
                      LET e == results[BatchRef(i)]
                      IN  /\ e.ref = BatchRef(i)
                          /\ IF BatchFails(LastOf(i))
                               THEN e.value = ErrorMarker
                               ELSE e.value = <<cacheKey(BatchRef(i), bin.flags), secretVer>>

\* C17 witness: a reads request whose first reference failed in the backend
\* and whose second was denied by the policy still returned the value of
\* its third
C17_Witness ==
    /\ ReadsDone /\ Len(bin.refs) = 3
    /\ bin.outcomes[1] = "backend read failed" /\ bin.refs[1] = RefPA
    /\ PolicyDenies(bin.peer, bin.refs[2])
    /\ bin.refs[3] = <<"p", "b">>
    /\ bout[1].results[RefPA].value = ErrorMarker
    /\ bout[1].results[bin.refs[2]].value = ErrorMarker
    /\ bout[1].results[bin.refs[3]].value = <<bin.refs[3], secretVer>>

ResolveDone == bout # <<>> /\ bin.endpoint = "resolve"

\* C18: resolve returns the map name -> value only if every reference is
\* read successfully; if any reference fails the whole request fails with
\* an error status naming the entry, and no partial map is returned.
C18_ResolveAllOrNothing ==
    ResolveDone =>
        LET n == Len(bin.refs)
            failing == { i \in 1..n : BatchFails(i) }
        IN  IF failing = {}
              THEN /\ bout[1].status = 200
                   /\ bout[1].env = [i \in 1..n |-> <<cacheKey(bin.refs[i], bin.flags), secretVer>>]
              ELSE /\ bout[1].status = 502
                   /\ bout[1].env = << >>
                   /\ \E i \in failing :
                         /\ \A j \in failing : i <= j
                         /\ bout[1].body = <<"resolve", i, "failed to read secret">>

\* C18 witness: a resolve whose first two references were read and whose
\* third failed returned an error and no values
C18_Witness ==
    /\ ResolveDone /\ Len(bin.refs) = 3
    /\ ~BatchFails(1) /\ ~BatchFails(2) /\ BatchFails(3)
    /\ bout[1].status = 502 /\ bout[1].env = << >>
    /\ DOMAIN cache # {}

(***************************************************************************)
(* Claims on the external-command backend                                  *)
(***************************************************************************)
OpcliValidationErrors ==
    { "empty ref",
      "invalid reference format: cannot start with dash",
      "invalid reference format: must start with op://",
      "invalid flag format: must start with dash",
      "invalid flag format: contains unsafe characters" }

\* the call returned a validation error and no subprocess was spawned
OpcliRejected == ~oout[1].spawned /\ oout[1].err \in OpcliValidationErrors

OpcliBadRef == ~HasPrefix(oin.ref, OpPrefix) \/ HasPrefix(oin.ref, <<"-">>)

OpcliBadFlag(f) ==
    ~HasPrefix(f, <<"-">>) \/ ContainsAny(f, { ";", "&", "|", Backquote, "$", "(", ")" })

\* C19 (as claimed): a validation error and no subprocess for every
\* reference that does not begin with op:// or begins with '-', and for
\* every flag list containing a flag that does not begin with '-' or
\* contains one of ; & | ` $ ( ).
C19_RejectsEveryBadInput ==
    oout # <<>> =>
        ((OpcliBadRef \/ \E i \in 1..Len(oin.flags) : OpcliBadFlag(oin.flags[i]))
            => OpcliRejected)

\* C19 (amended): as claimed, except that an empty-string flag is not
\* rejected but dropped: the call is rejected iff the reference is bad or
\* some non-empty flag is bad, and otherwise op is run with the non-empty
\* flags followed by read --no-color <ref>.
C19_RejectsNonEmptyBadFlags ==
    oout # <<>> =>
        IF OpcliBadRef \/ \E i \in 1..Len(oin.flags) :
                              oin.flags[i] # <<>> /\ OpcliBadFlag(oin.flags[i])
          THEN OpcliRejected
          ELSE /\ oout[1].spawned
               /\ \A i \in 1..Len(oout[1].args) : oout[1].args[i] # <<>>
               /\ Len(oout[1].args) =
                     Cardinality({ i \in 1..Len(oin.flags) : oin.flags[i] # <<>> }) + 3
               /\ oout[1].args[Len(oout[1].args)] = oin.ref

\* C19 witness: a flag with a shell metacharacter was refused for a good
\* reference, without a subprocess
C19_Witness ==
    /\ oout # <<>>
    /\ oin.ref = OpPrefix \o <<"v">>
    /\ oin.flags = << <<"-", "a">>, <<"-", "a", ";", "b">> >>
    /\ oout[1].err = "invalid flag format: contains unsafe characters"
    /\ ~oout[1].spawned

(***************************************************************************)
(* Claims on failed backend calls and the cache                            *)
(***************************************************************************)
\* some backend call for key k has returned a value
SuccessfulFetch(k) ==
    \E u \in beBy :
        /\ ReqKey(u) = k
        /\ pc[u] \in {"cache_set", "sf_done", "ret", "done"}
        /\ tres[u].err = ""

\* some backend call for key k has returned an error
FailedFetch(k) ==
    \E u \in beBy :
        /\ ReqKey(u) = k
        /\ pc[u] \in {"sf_done", "ret", "done"}
        /\ tres[u].err = "backend read failed"

\* the entry under key k holds a secret value read from the backend
HoldsSecret(k) ==
    /\ SuccessfulFetch(k)
    /\ \E ver \in 1..MaxSecretVer : cache[k].v = <<k, ver>>

\* thread t carries an error result one step further towards its response
FailurePropagates(t) ==
    /\ pc[t] \in {"sf_done", "thunk_err", "ret"}
    /\ pc'[t] # pc[t]
    /\ tres'[t].err # ""

C21_HitReturnsStoredValue ==
    \A t \in Threads :
        (cret[t] # <<>> /\ cret[t][1].ok) =>
            <<cret[t][1].key, cret[t][1].v>> \in cstored

\* C22: N concurrent reads of one uncached fingerprint, on a backend that
\* succeeds, raise the miss counter by exactly 1 and the hit counter by
\* exactly N-1; exactly one response has from_cache = false, the other N-1
\* have from_cache = true, and all carry the same value.
C22_CountersOfConcurrentReads ==
    \A t \in Threads :
        ( /\ Reader(t)
          /\ \A u \in Threads : Reader(u) /\ ReqKey(u) = ReqKey(t)
          /\ \A u \in Threads : Served(u) /\ early[u]
          /\ lockCalls = 0
          /\ \A u \in Threads : now <= resp[u].resolvedAt + TTL ) =>
            /\ misses = 1
            /\ hits = Cardinality(Threads) - 1
            /\ Cardinality({ u \in Threads : ~resp[u].fromCache }) = 1
            /\ \A u \in Threads : resp[u].value = resp[t].value

(***************************************************************************)
(* Claims on the audit log                                                 *)
(***************************************************************************)
\* this step writes exactly one audit record, of the given event and decision
AuditAppended(ev, dec) ==
    /\ Len(auditLog') = Len(auditLog) + 1
    /\ SubSeq(auditLog', 1, Len(auditLog)) = auditLog
    /\ auditLog'[Len(auditLog')].Event = ev
    /\ auditLog'[Len(auditLog')].Decision = dec

\* thread t's request is answered in this step
Answered(t) == kind[t] = "read" /\ pc[t] # "done" /\ pc'[t] = "done"

\* C23: with audit logging enabled, each successful read, each policy deny,
\* each authentication failure, each session transition to Locked and each
\* transition back to Authenticated writes exactly one audit record
\* (ACCESS_DECISION/ALLOW, ACCESS_DECISION/DENY, AUTHENTICATION/FAILURE,
\* SESSION_LOCK, SESSION_UNLOCK respectively).
C23_OneAuditRecordPerEvent ==
    [][AuditEnabled =>
         /\ \A t \in Threads :
              /\ (Answered(t) /\ resp'[t].status = 200) =>
                     AuditAppended("ACCESS_DECISION", "ALLOW")
              /\ (Answered(t) /\ pc[t] = "handler" /\ resp'[t].status = 502) =>
                     AuditAppended("ACCESS_DECISION", "DENY")
              /\ (Answered(t) /\ resp'[t].status = 401) =>
                     AuditAppended("AUTHENTICATION", "FAILURE")
         /\ (sessState # SessionLocked /\ sessState' = SessionLocked) =>
                \E dec \in {"LOCKED", "SUCCESS"} : AuditAppended("SESSION_LOCK", dec)
         /\ (sessState = SessionLocked /\ sessState' = SessionAuthenticated) =>
                \E dec \in {"UNLOCKED", "SUCCESS"} : AuditAppended("SESSION_UNLOCK", dec)]_vars

(***************************************************************************)
(* Claims on adding allow rules                                            *)
(***************************************************************************)
\* the policy pol without its i-th allow rule (same default_deny)
WithoutRule(pol, i) ==
    [pol EXCEPT !.Allow = SubSeq(pol.Allow, 1, i - 1) \o SubSeq(pol.Allow, i + 1, Len(pol.Allow))]

\* C24: if Allowed(P, s, x) holds then Allowed(P', s, x) holds for the policy
\* P' obtained by adding a rule r to P's allow list (same default_deny):
\* adding an allow rule never turns an allow into a deny. Here P' is the
\* evaluated policy and P ranges over P' less one of its rules.
C24_AddingRuleKeepsAllow ==
    pout # <<>> =>
        \A i \in 1..Len(pin.pol.Allow) :
            Allowed(WithoutRule(pin.pol, i), pin.subj, pin.ref) => pout[1] = TRUE

\* C24 witness: a default-deny policy whose only matching rule is its second
\* one allowed the request after a non-matching rule was added in front
C24_Witness ==
    /\ pout = <<TRUE>>
    /\ pin.pol.DefaultDeny
    /\ Len(pin.pol.Allow) = 2
    /\ ~RuleMatches(pin.pol.Allow[1], pin.subj, pin.ref)
    /\ pin.pol.Allow[1].PID # 0 /\ pin.pol.Allow[1].PID # pin.subj.PID
    /\ Allowed(WithoutRule(pin.pol, 1), pin.subj, pin.ref)

(***************************************************************************)
(* Claims on the routing multiplexer                                       *)
(***************************************************************************)
\* the reference has none of the three schemes
SchemeLess(ref) ==
    ~HasPrefix(ref, OpPrefix) /\ ~HasPrefix(ref, VaultPrefix) /\ ~HasPrefix(ref, BaoPrefix)

\* the backend a default scheme names, if it names one
NamedBy(scheme) ==
    IF scheme = "op" THEN OpBackend
    ELSE IF scheme = "vault" THEN VaultBackend
    ELSE IF scheme = "bao" THEN BaoBackend
    ELSE NilBackend

\* C25: the multiplexer sends a reference beginning with op:// to the
\* external-command backend, one beginning with vault:// to the Vault backend,
\* one beginning with bao:// to the OpenBao backend, and a reference with
\* none of these schemes to the backend named by the configured default
\* scheme (to none, with an error, when the default names no backend).
C25_RoutesByScheme ==
    mbout # <<>> =>
        /\ HasPrefix(mbin.ref, OpPrefix) => mbout[1].called = OpBackend
        /\ HasPrefix(mbin.ref, VaultPrefix) => mbout[1].called = VaultBackend
        /\ HasPrefix(mbin.ref, BaoPrefix) => mbout[1].called = BaoBackend
        /\ SchemeLess(mbin.ref) => mbout[1].called = NamedBy(mbin.defaultScheme)
        /\ mbout[1].called # NilBackend => mbout[1].ref = mbin.ref
        /\ mbout[1].called = NilBackend => mbout[1].err # ""

\* C25 witness: a vault:// reference went to the Vault backend although the
\* default scheme names another backend
C25_Witness ==
    /\ mbout # <<>>
    /\ HasPrefix(mbin.ref, VaultPrefix) /\ mbin.defaultScheme = "bao"
    /\ mbout[1].called = VaultBackend /\ mbout[1].err = ""

(***************************************************************************)
(* Claims on the cache counters                                            *)
(***************************************************************************)
\* C26: the hits and misses counters never decrease and the in-flight gauge
\* is never negative, also under concurrent increments and when DecInFlight
\* is called more often than IncInFlight.
C26_CountersMonotone ==
    /\ [](inflight >= 0 /\ hits >= 0 /\ misses >= 0)
    /\ [][hits' >= hits /\ misses' >= misses]_vars

\* C26 witness: each caller's only call so far was DecInFlight, with no
\* IncInFlight before it, and the gauge is at zero
C26_Witness ==
    /\ \A t \in Threads : cth[t].n = 1 /\ cth[t].pc = "idle" /\ cth[t].op = "DecInFlight"
    /\ inflight = 0 /\ hits = 0 /\ misses = 0

(***************************************************************************)
(* Claims on the frame of a policy deny                                    *)
(***************************************************************************)
\* the server's policy denies the identified peer of request t its
\* reference: default_deny, and no rule matches
PolicySaysDeny(t) ==
    /\ req[t].peer # NoPeer
    /\ srvPolicy.DefaultDeny
    /\ \A i \in 1..Len(srvPolicy.Allow) :
          ~RuleMatches(srvPolicy.Allow[i],
                       [PID |-> req[t].peer[1].PID, Path |-> req[t].peer[1].Path],
                       ReqRef(t))

\* C27: a read denied by the policy leaves the cache entries, the hit, miss
\* and in-flight counters and the backend untouched: the step that handles
\* it changes none of them, it creates no single-flight call, joins none,
\* makes no backend call and ends without a value.
C27_DenyTouchesNothing ==
    /\ [](\A t \in Threads :
            (Handled(t) /\ PolicySaysDeny(t)) =>
                /\ pc[t] = "done"
                /\ resp[t].status # 200
                /\ t \notin beBy
                /\ joined[t] = 0
                /\ \A c \in sfm : c.leader # t)
    /\ [][\A t \in Threads :
            (pc[t] = "handler" /\ pc'[t] # "handler" /\ req'[t].peer = <<PeerBad>>
               /\ TrimSpace(req'[t].ref) # <<>>) =>
                UNCHANGED <<cache, hits, misses, inflight, sfm, beBy>>]_vars

\* C27 witness: a denied read has ended while the cache holds an entry for
\* its own key, fetched for another peer, and the counters show that
\* request's lookup only
C27_Witness ==
    \E t \in Threads, u \in Threads :
        /\ t # u
        /\ Handled(t) /\ PolicySaysDeny(t) /\ pc[t] = "done"
        /\ Handled(u) /\ ReqKey(u) = ReqKey(t) /\ Served(u) /\ u \in beBy
        /\ ReqKey(t) \in DOMAIN cache
        /\ misses = 1 /\ hits = 0 /\ inflight = 0

(***************************************************************************)
(* Claims on the forced transitions, the activity stamp and the idle check *)
(***************************************************************************)
\* C28: MarkLocked called in a non-Locked state sets the state to Locked,
\* records locked_at and fires the lock callback (the registered one) exactly
\* once; called when the state is already Locked it is a no-op (callback not
\* fired, locked_at unchanged). MarkAuthenticated sets the state to
\* Authenticated, sets last_activity to now and clears locked_at.
C28_ForcedTransitions ==
    [][\A t \in Threads :
         /\ ClientMarkLocked(t) =>
               IF sessState # SessionLocked
                 THEN /\ sessState' = SessionLocked
                      /\ lockedAt' = now
                      /\ lastActivity' = lastActivity
                      /\ lockCalls' = IF hasLockCb THEN lockCalls + 1 ELSE lockCalls
                      /\ hasLockCb => cache' = << >>
                 ELSE UNCHANGED <<sessState, lockedAt, lastActivity, lockCalls, cache>>
         /\ ClientMarkAuthenticated(t) =>
               /\ sessState' = SessionAuthenticated
               /\ lastActivity' = now
               /\ lockedAt' = 0
               /\ UNCHANGED <<lockCalls, cache>>]_vars

\* C28 witness: with the idle loop not started and no ValidateSession call
\* made, the session is Locked since an earlier instant, the callback has
\* fired once, and every caller has made all its calls
C28_Witness ==
    /\ monitor = "new" /\ hasLockCb
    /\ \A t \in Threads : vres[t] = NoVal /\ pc[t] = "idle" /\ ops[t] = MaxOps
    /\ sessState = SessionLocked /\ lockedAt = 2 /\ now > lockedAt
    /\ lastActivity = 1
    /\ lockCalls = 1

\* C29: UpdateActivity sets last_activity to now iff the state is
\* Authenticated; in Unknown, Locked and Expired it changes nothing, and in
\* no state does it change the session state or locked_at.
C29_UpdateActivityFrame ==
    [][\A t \in Threads :
         ClientUpdateActivity(t) =>
             /\ lastActivity' = IF sessState = SessionAuthenticated THEN now ELSE lastActivity
             /\ sessState' = sessState
             /\ lockedAt' = lockedAt
             /\ UNCHANGED <<lockCalls, cache>>]_vars

\* C29 witness: with the idle loop not started and no ValidateSession call
\* made, the session is Authenticated with its activity stamped at the
\* present instant, after the clock has advanced
C29_Witness ==
    /\ monitor = "new"
    /\ \A t \in Threads : vres[t] = NoVal /\ pc[t] = "idle"
    /\ \E t \in Threads : ops[t] = MaxOps
    /\ sessState = SessionAuthenticated /\ lockedAt = 0
    /\ lastActivity = now /\ now = MaxTime

\* C30: the idle check changes the session only from Authenticated to
\* Locked, and only when idle_timeout > 0 and now - last_activity >
\* idle_timeout; it never changes a session that is Unknown or Locked, nor an
\* Authenticated session whose idle time is at most idle_timeout.
C30_IdleCheckOnlyLocksIdle ==
    [][checkIdleTimeout =>
         IF /\ sessState = SessionAuthenticated
            /\ sessCfg.SessionIdleTimeout > 0
            /\ now - lastActivity > sessCfg.SessionIdleTimeout
           THEN /\ sessState' = SessionLocked
                /\ lockedAt' = now
                /\ lastActivity' = lastActivity
           ELSE UNCHANGED <<sessState, lastActivity, lockedAt, lockCalls, cache>>]_vars

\* C30 witness: the only call made was a ValidateSession that succeeded, and
\* the session is Locked at an instant more than idle_timeout after its
\* last activity
C30_Witness ==
    /\ monitor = "running" /\ sessCfg.SessionIdleTimeout > 0
    /\ \E t \in Threads :
          /\ ops[t] = 1 /\ vres[t] = "ok" /\ pc[t] = "idle"
          /\ \A u \in Threads \ {t} : ops[u] = 0
    /\ sessState = SessionLocked
    /\ lockedAt - lastActivity > sessCfg.SessionIdleTimeout

(***************************************************************************)
(* Claims on the lock callback and on locked_at                            *)
(***************************************************************************)
\* the session enters Locked in this step
EntersLocked == sessState # SessionLocked /\ sessState' = SessionLocked

\* the step is the critical section of a failed classification of an
\* Unknown session (determineInitialState)
ClassifyStep == \E t \in Threads : ValidateApply(t)

\* the step is the idle check or a MarkLocked call
LockingCall == checkIdleTimeout \/ \E t \in Threads : ClientMarkLocked(t)

ThunkPcs == {"recheck", "v_read", "v_cb", "v_apply", "be_read", "cache_set",
             "sf_done", "thunk_err"}

InThunk(t) == kind[t] = "read" /\ pc[t] \in ThunkPcs

\* the backend call of t's thunk returns a value in this step
FetchSucceeds(t) == pc[t] = "be_read" /\ pc'[t] = "cache_set"

\* C32: the backend is invoked for a fingerprint only when the re-check
\* inside the single-flight thunk found no unexpired entry for it (the thunk
\* goes on to the session-aware backend iff the re-check misses, there is no
\* other way to the backend, and no two thunks run for one fingerprint at a
\* time); consequently, when a backend fetch succeeds while the cache still
\* holds the entry stored by an earlier fetch of the same fingerprint (the
\* cache was not cleared in between), at least ttl has passed since that
\* entry was stored, and so since it was fetched.
C32_FetchOnlyWhenRecheckMisses ==
    /\ [](\A t, u \in Threads :
            (t # u /\ InThunk(t) /\ InThunk(u)) => ReqKey(t) # ReqKey(u))
    /\ [][\A t \in Threads :
            /\ (pc[t] = "recheck" /\ pc'[t] # "recheck") =>
                  /\ pc'[t] \in {"v_read", "sf_done"}
                  /\ pc'[t] = "v_read" <=> ~CacheGet(cache, ReqKey(t), now).ok
            /\ (kind[t] = "read" /\ pc[t] # "v_read" /\ pc'[t] = "v_read") =>
                  pc[t] = "recheck"
            /\ (kind[t] = "read" /\ pc[t] # "be_read" /\ pc'[t] = "be_read") =>
                  pc[t] \in {"v_read", "v_cb", "v_apply"}
            /\ (FetchSucceeds(t) /\ ReqKey(t) \in DOMAIN cache) =>
                  now - cache[ReqKey(t)].cached >= TTL]_vars

\* C32 witness: two requests for one fingerprint were both answered by a
\* backend fetch of their own, the cache was never cleared, and the second
\* value was stored more than ttl after the first
C32_Witness ==
    \E t, u \in Threads :
        /\ t # u /\ Reader(t) /\ u \in SameKey(t)
        /\ Served(t) /\ Served(u)
        /\ t \in beBy /\ u \in beBy
        /\ ~resp[t].fromCache /\ ~resp[u].fromCache
        /\ lockCalls = 0
        /\ resp[u].resolvedAt - resp[t].resolvedAt > TTL

(***************************************************************************)
(* Claims on cancellation of coalesced requests                            *)
(***************************************************************************)
\* request u was coalesced into the fetch started by another request
CoalescedInto(u, t) ==
    /\ t # u /\ Reader(t) /\ u \in SameKey(t)
    /\ t \in beBy /\ u \notin beBy
    /\ pc[u] = "done" /\ early[u]

\* C33: when read requests for one fingerprint are coalesced into one
\* backend fetch, a request whose own context is still live does not fail
\* because the context of another one was cancelled: it receives the fetched
\* value or the backend's own error, whichever request started the fetch.
C33_CancelDoesNotSpread ==
    \A t, u \in Threads :
        (CoalescedInto(u, t) /\ ~ctxDone[u]) => tres[u].err # "context canceled"

(***************************************************************************)
(* Claims on the lock discipline                                           *)
(***************************************************************************)
\* C34: with the server's cache-clearing lock callback installed, concurrent
\* calls of UpdateActivity, GetInfo, ValidateSession, MarkLocked and the
\* idle check, together with reads that use the cache, never deadlock:
\* every call that has started eventually returns.
C34_EveryCallReturns ==
    \A p \in LkProcs : LkBusy(p) ~> ~LkBusy(p)

\* C34 witness: every caller has made its calls and returned, the idle check
\* is not running, and the lock callback has cleared the cache under
\* Manager.mu at least once
C34_Witness ==
    /\ \A p \in Threads : lth[p].n = MaxLkOps /\ ~LkBusy(p)
    /\ ~LkBusy(MonitorProc)
    /\ lockCalls > 0 /\ sessState = SessionLocked
    /\ \E p \in Threads : lth[p].op = "Read"
    /\ \E p \in Threads : lth[p].op = "MarkLocked"

(***************************************************************************)
(* Claims on the token file                                                *)
(***************************************************************************)
\* no EnsureToken call is in progress
TokQuiet == \A t \in Threads : tth[t].pc = "idle"

\* C35: EnsureToken on a path whose token file exists returns the file
\* content and leaves the file unchanged; on a missing file it creates it;
\* and under every interleaving of concurrent calls on one path, every call
\* that returned successfully returned the same token, which is the final
\* content of the token file.
C35_OneTokenForAll ==
    /\ [][\A t \in Threads :
            (EnsureTokenRead(t) /\ tfs["token"] # NoFile) =>
                (tth'[t].ret = tfs["token"] /\ ~tth'[t].err /\ tfs' = tfs)]_vars
    /\ []((TokQuiet /\ trets # {}) => tfs["token"] # NoFile)
    /\ [](TokQuiet => \A r \in trets : r = tfs["token"])

(***************************************************************************)
(* Claims on the cleanup sweep                                             *)
(***************************************************************************)
\* C36 as claimed: cleanup_expired removes exactly the entries whose
\* expires_at <= now, returns the number it removed, and leaves every
\* unexpired entry (value and expiry) and the hit, miss and in-flight
\* counters unchanged.
C36_RemovesExpiredInclusive ==
    [][CleanupCall =>
         LET gone == { k \in DOMAIN cache : cache[k].exp <= now }
         IN  /\ DOMAIN cache' = (DOMAIN cache) \ gone
             /\ \A k \in DOMAIN cache' : cache'[k] = cache[k]
             /\ clOut' = << Cardinality(gone) >>
             /\ UNCHANGED <<hits, misses, inflight>>]_vars

\* C36 amended: cleanup_expired removes exactly the entries whose
\* expires_at < now (an entry whose expiry instant is now is kept), returns
\* the number it removed, and leaves every other entry (value and expiry)
\* and the hit, miss and in-flight counters unchanged.
C36_RemovesExpiredStrict ==
    [][CleanupCall =>
         LET gone == { k \in DOMAIN cache : cache[k].exp < now }
         IN  /\ DOMAIN cache' = (DOMAIN cache) \ gone
             /\ \A k \in DOMAIN cache' : cache'[k] = cache[k]
             /\ clOut' = << Cardinality(gone) >>
             /\ UNCHANGED <<hits, misses, inflight>>]_vars

\* C36 witness: a sweep removed one entry and kept another one, whose expiry
\* instant is the instant of the sweep
C36_Witness ==
    /\ clOut = << 1 >>
    /\ DOMAIN cache = {"k2"}
    /\ cache["k2"].exp = now
    /\ hits = 1 /\ misses = 1 /\ inflight = 1

\* a MarkLocked call or an idle check that has to lock the session
MarkLockedLocks == (\E t \in Threads : ClientMarkLocked(t)) /\ sessState # SessionLocked

IdleCheckLocks == checkIdleTimeout /\ sessState = SessionAuthenticated /\ IdleExceeded

\* C37: when the lock callback returns an error during a lock transition
\* (idle timeout or mark_locked), the session still ends in Locked with
\* locked_at set; the error is not propagated (the caller's call returns as
\* usual, the idle loop goes on) and the state is not rolled back.
C37_CallbackErrorKeepsLock ==
    [][((MarkLockedLocks \/ IdleCheckLocks) /\ hasLockCb /\ lockCbFails) =>
          /\ sessState' = SessionLocked
          /\ lockedAt' = now /\ lockedAt' # 0
          /\ lockCalls' = lockCalls + 1
          /\ \A t \in Threads : pc'[t] = pc[t] /\ vres'[t] = vres[t]
          /\ monitor' = monitor]_vars

\* C37 witness: the failing callback has run twice, once for a MarkLocked
\* call and once for the idle check, and the session is Locked since the
\* idle check, with every caller back from its calls
C37_Witness ==
    /\ lockCbFails /\ hasLockCb /\ lockCalls = 2
    /\ sessState = SessionLocked /\ lockedAt = MaxTime
    /\ lockedAt - lastActivity > sessCfg.SessionIdleTimeout
    /\ monitor = "running" /\ sessCfg.SessionIdleTimeout > 0
    /\ \A t \in Threads : pc[t] = "idle"
    /\ \A t \in Threads : vres[t] = NoVal

(***************************************************************************)
(* Claims on start and shutdown                                            *)
(***************************************************************************)
\* after a loop has terminated it stays terminated and does nothing more:
\* no idle-lock transition, no cleanup sweep
LoopsStayStopped ==
    [][ /\ monitor = "stopped" =>
              (monitor' = "stopped" /\ ~(checkIdleTimeout /\ sessState' # sessState))
        /\ life.cleaner = "stopped" =>
              (life'.cleaner = "stopped" /\ ~(CleanupSweep /\ cache' # cache)) ]_vars

\* Start followed by Stop returns, with session locking enabled or disabled
StopReturns == (life.stop = "waiting") ~> (life.stop = "returned")

\* with session locking disabled the idle loop never runs, Start and Stop
\* leave the session state alone, and the state is Unknown as long as no
\* caller has changed it
DisabledStaysUnknown ==
    /\ [](~sessCfg.EnableSessionLock => monitor \in {"new", "disabled"})
    /\ []((~sessCfg.EnableSessionLock /\ \A t \in Threads : ops[t] = 0) =>
             sessState = SessionUnknown)
    /\ [][(Start \/ StopClose \/ StopReturn) => sessState' = sessState]_vars

\* C38 as claimed: cancelling the daemon's root context, or calling Stop,
\* makes the idle loop and the cache cleanup loop terminate, after which no
\* idle-lock transition and no cleanup sweep occurs; Start followed by Stop
\* returns with session locking enabled and disabled, and with locking
\* disabled the session state stays Unknown.
C38_StopEndsBothLoops ==
    /\ (life.ctx = "done") ~> (monitor # "running" /\ life.cleaner = "stopped")
    /\ (life.stop # "none") ~> (monitor # "running" /\ life.cleaner = "stopped")
    /\ LoopsStayStopped
    /\ StopReturns
    /\ DisabledStaysUnknown

\* C38 amended: cancelling the daemon's root context makes the idle loop and
\* the cache cleanup loop terminate, and calling Stop makes the idle loop
\* terminate (the cleanup loop ends only with the root context); after a
\* loop has terminated it makes no idle-lock transition, respectively no
\* cleanup sweep; Start followed by Stop returns with session locking
\* enabled and disabled, and with locking disabled the session state stays
\* Unknown.
C38_ShutdownEndsLoops ==
    /\ (life.ctx = "done") ~> (monitor # "running" /\ life.cleaner = "stopped")
    /\ (life.stop # "none") ~> (monitor # "running")
    /\ LoopsStayStopped
    /\ StopReturns
    /\ DisabledStaysUnknown

\* C38 witness: session locking is enabled, the root context was cancelled
\* and Stop has returned, both loops have ended, and they left behind an
\* Authenticated session idle for longer than the timeout and an expired
\* cache entry
C38_Witness ==
    /\ sessCfg.EnableSessionLock
    /\ life.ctx = "done" /\ life.stop = "returned"
    /\ monitor = "stopped" /\ life.cleaner = "stopped"
    /\ sessState = SessionAuthenticated /\ IdleExceeded
    /\ LkKey \in DOMAIN cache /\ now > cache[LkKey].exp

(***************************************************************************)
(* C39: in every reachable state of the session manager lockedAt is        *)
(* non-zero exactly when the state is Locked; every step that enters       *)
(* Locked stamps lockedAt with the current time, and every step that       *)
(* enters Authenticated resets it to the zero time.                        *)
(***************************************************************************)
C39_LockedAtIffLocked ==
    /\ [](lockedAt # 0 <=> sessState = SessionLocked)
    /\ [][(sessState # SessionLocked /\ sessState' = SessionLocked)
             => lockedAt' = now]_vars
    /\ [][(sessState # SessionAuthenticated /\ sessState' = SessionAuthenticated)
             => lockedAt' = 0]_vars

\* the session has been locked (the lock callback ran) and unlocked again:
\* it is Authenticated and the lock time is cleared
C39_Witness ==
    /\ sessState = SessionAuthenticated
    /\ lockCalls > 0
    /\ lockedAt = 0
    /\ lastActivity > 1

(***************************************************************************)
(* C40: the reads and resolve endpoints use each reference exactly as the  *)
(* client sent it: every key the request leaves in the cache is the        *)
(* fingerprint of a reference of the request, byte for byte, and every key *)
(* of the reads result is a reference of the request, so a reference with  *)
(* a leading or trailing blank is not taken for the one without it.        *)
(***************************************************************************)
C40_ReferenceUsedAsSent ==
    bout # <<>> =>
        /\ \A k \in DOMAIN cache :
               \E i \in 1..Len(bin.refs) : k = cacheKey(bin.refs[i], bin.flags)
        /\ bin.endpoint = "reads" =>
               \A k \in DOMAIN bout[1].results :
                   \E i \in 1..Len(bin.refs) : k = bin.refs[i]

====
